---- MODULE Spec2Model ----
(***************************************************************************)
(* A model of the dependency handling of NpmPackage (src/npm-package.ts):  *)
(* the add* methods, renderDependencies (pre-synthesis), the package.json  *)
(* written in the synthesize phase, and the install + resolve step of      *)
(* postSynthesize, driven by the three-phase synth() lifecycle.            *)
(*                                                                         *)
(* JavaScript objects are modelled as sequences of <<key, value>> pairs in *)
(* insertion order (the order Object.entries and JSON.stringify follow),   *)
(* `undefined` as the string Undefined, strings as TLA+ strings, and a     *)
(* dependency spec such as "react@^16" as the sequence of its pieces       *)
(* <<"react", "@", "^16">>, every "@" being a piece of its own.            *)
(***************************************************************************)
EXTENDS Integers, Sequences, FiniteSets, TLC

VARIABLES
    deps,                      \* project.deps: the dependency ledger, a sequence of records
    pinnedDevDependency,       \* peerDependencyOptions.pinnedDevDependency ?? true
    allowLibraryDependencies,  \* NpmPackage.allowLibraryDependencies
    manifest,                  \* the dependency fields of NpmPackage.manifest
    renderedDeps,              \* NpmPackage._renderedDeps
    pkgFile,                   \* <outdir>/package.json on disk
    installed,                 \* node_modules: name -> version of the installed package
    lookups,                   \* the <<bucket, name>> pairs resolveDeps looked up in node_modules
    log,                       \* what was sent to logging.verbose / logging.warn
    phase,                     \* the phase synth() is in
    idx,                       \* the component whose hook of this phase runs next
    error,                     \* the error the program stopped with, "none" if it has not
    renders,                   \* how many times renderDependencies has been called
    lastWritten,               \* package.json as the last run of synth() that finished left it
    options,                   \* the NodeProjectOptions the project was constructed with
    tasks,                     \* project.tasks: the tasks in definition order
    scripts,                   \* NpmPackage.scripts: name -> commands, set by setScript
    renderedScripts,           \* the scripts of package.json as renderScripts returned them
    runCommand,                \* what the last call of runTaskCommand returned
    workflows                  \* the workflows added to project.github, and the block of the
                               \* constructor that adds the next

\* the state of the package: ledger, manifest, files and lifecycle
pkgVars == <<deps, pinnedDevDependency, allowLibraryDependencies, manifest, renderedDeps,
             pkgFile, installed, lookups, log, phase, idx, renders,
             lastWritten>>

\* the state of the task graph and of what was rendered from it
taskVars == <<options, tasks, scripts, renderedScripts, runCommand, workflows>>

vars == <<pkgVars, taskVars, error>>

-----------------------------------------------------------------------------
(* Bounds and input sets *)

\* the ledger holds at most MaxDeps declared dependencies before synth()
MaxDeps == 3

\* renderDependencies is called at most MaxRenders times
MaxRenders == 2

\* the tasks of a project hold at most MaxSteps steps together
MaxSteps == 4

Undefined == "<undefined>"

Names == {"left-pad", "react", "test-lib"}

\* the names in the order String.prototype.localeCompare puts them
NameOrder == <<"left-pad", "react", "test-lib">>

\* the arguments the model passes to addDeps / addDevDeps / addPeerDeps / addBundledDeps
RuntimeSpecs == { <<"left-pad">>, <<"react", "@", "^16">> }
DevSpecs     == { <<"test-lib", "@", "^3">>, <<"react">> }
PeerSpecs    == { <<"react", "@", "^16">>, <<"react">>, <<"left-pad", "@", "not-a-range">>,
                  <<"test-lib", "@", "<0.0.0">> }
BundledSpecs == { <<"left-pad", "@", "^1.2.0">>, <<"react">> }
\* the argument lists of addPeerDeps and addBundledDeps: one spec, none, or two
PeerCalls    == {<<spec>> : spec \in PeerSpecs}
                \cup {<<>>, << <<"react", "@", "^16">>, <<"test-lib", "@", "<0.0.0">> >>}
BundledCalls == {<<spec>> : spec \in BundledSpecs}
                \cup {<<>>, << <<"left-pad", "@", "^1.2.0">>, <<"react">> >>}
\* dev dependencies declared with a range, on packages that are peer dependencies too
PinDevSpecs  == { <<"react", "@", "^3">>, <<"test-lib", "@", "^1.2.0">> }
\* what other components put in the ledger directly, with the roles NpmPackage has no method for
DirectSpecs  == { <<<<"test-lib">>, "test">>, <<<<"react", "@", "^16">>, "devenv">> }

-----------------------------------------------------------------------------
(* JavaScript values *)

\* !v for a string or undefined
Falsy(v) == v = Undefined \/ v = ""

RECURSIVE Join(_)
\* Array.prototype.join('') of the pieces of a string
Join(pieces) == IF pieces = <<>> THEN "" ELSE Head(pieces) \o Join(Tail(pieces))

\* Object.keys(obj)
Keys(obj) == [i \in 1..Len(obj) |-> obj[i][1]]

KeySet(obj) == {obj[i][1] : i \in 1..Len(obj)}

\* obj[key], undefined when obj has no such key
Get(obj, key) ==
    IF key \in KeySet(obj)
    THEN LET i == CHOOSE j \in 1..Len(obj) : obj[j][1] = key IN obj[i][2]
    ELSE Undefined

\* obj[key] = value: a present key keeps its place, a new key goes last
Put(obj, key, value) ==
    IF key \in KeySet(obj)
    THEN [i \in 1..Len(obj) |-> IF obj[i][1] = key THEN <<key, value>> ELSE obj[i]]
    ELSE Append(obj, <<key, value>>)

Rank(name) == CHOOSE i \in 1..Len(NameOrder) : NameOrder[i] = name

\* l.localeCompare(r)
localeCompare(l, r) == Rank(l) - Rank(r)

RECURSIVE InsertSorted(_, _)
InsertSorted(entry, srt) ==
    IF srt = <<>> THEN <<entry>>
    ELSE IF localeCompare(entry[1], Head(srt)[1]) < 0 THEN <<entry>> \o srt
    ELSE <<Head(srt)>> \o InsertSorted(entry, Tail(srt))

RECURSIVE SortEntries(_)
\* Object.entries(toSort).sort(([l], [r]) => l.localeCompare(r)): a stable sort by key
SortEntries(entries) ==
    IF entries = <<>> THEN <<>>
    ELSE InsertSorted(entries[Len(entries)], SortEntries(SubSeq(entries, 1, Len(entries) - 1)))

\* sorted without the sort: the entries in insertion order
sortedUnsorted(toSort) == toSort

\* sorted(toSort)() for an object: a new object with the keys in localeCompare order
sorted(toSort) == SortEntries(toSort)

-----------------------------------------------------------------------------
(* The dependency ledger (project.deps) *)

\* the place of the last "@" of the spec that is not its first piece, 0 if there is none
LastAt(spec) ==
    LET S == {i \in 2..Len(spec) : spec[i] = "@"}
    IN IF S = {} THEN 0 ELSE CHOOSE i \in S : \A j \in S : j <= i

\* <package>@<range>: the name and the optional range of a dependency spec
parseDependency(spec) ==
    LET i == LastAt(spec)
    IN IF i = 0
       THEN [name |-> Join(spec), version |-> Undefined]
       ELSE [name |-> Join(SubSeq(spec, 1, i - 1)),
             version |-> Join(SubSeq(spec, i + 1, Len(spec)))]

\* the place of the (name, type) entry in the ledger, 0 if there is none
IndexOf(ds, name, type) ==
    LET S == {i \in 1..Len(ds) : ds[i].name = name /\ ds[i].type = type}
    IN IF S = {} THEN 0 ELSE CHOOSE i \in S : \A j \in S : i <= j

\* deps.addDependency(spec, type): stores the entry, overwriting the one with the same key
addDependency(ds, spec, type) ==
    LET p   == parseDependency(spec)
        dep == [name |-> p.name, version |-> p.version, type |-> type]
        i   == IndexOf(ds, p.name, type)
    IN IF i = 0 THEN Append(ds, dep) ELSE [ds EXCEPT ![i] = dep]

\* deps.all: the entries in insertion order
all(ds) == ds

RECURSIVE addAll(_, _, _)
\* for (const dep of deps) { this.project.deps.addDependency(dep, type); }
addAll(ds, specs, type) ==
    IF specs = <<>> THEN ds
    ELSE addAll(addDependency(ds, Head(specs), type), Tail(specs), type)

HasDep(ds, name, type) == IndexOf(ds, name, type) # 0

-----------------------------------------------------------------------------
(* semver *)

\* semver.minVersion(range)?.version: the lowest version the range admits, Undefined when
\* minVersion returns null (no version satisfies the range), Throws when the range does
\* not parse (new Range(range) throws a TypeError)
Throws == "<throws>"

minVersion(range) ==
    CASE range = "^16"     -> "16.0.0"
      [] range = "^3"      -> "3.0.0"
      [] range = "^1.2.0"  -> "1.2.0"
      [] range = "16.0.0"  -> "16.0.0"
      [] range = "3.0.0"   -> "3.0.0"
      [] range = "1.2.0"   -> "1.2.0"
      [] range = "*"       -> "0.0.0"
      [] range = "<0.0.0"  -> Undefined
      [] OTHER             -> Throws

-----------------------------------------------------------------------------
(* NpmPackage: declaring dependencies *)

\* the body of addDeps: every spec goes to the ledger as RUNTIME
addDeps(ds, specs) == addAll(ds, specs, "runtime")

\* addDevDeps on a ledger that keeps every entry it is given
addDevDepsAppend(ds, specs) ==
    ds \o [i \in 1..Len(specs) |->
              [name |-> parseDependency(specs[i]).name,
               version |-> parseDependency(specs[i]).version, type |-> "build"]]

\* the body of addDevDeps: every spec goes to the ledger as BUILD
addDevDeps(ds, specs) == addAll(ds, specs, "build")

\* addPeerDeps storing its first dependency before it refuses the call
addPeerDepsUntilRefused(ds, specs, allowLib) ==
    IF Len(specs) # 0 /\ ~allowLib
    THEN [deps |-> addAll(ds, <<specs[1]>>, "peer"),
          error |-> "cannot add peer dependencies to an APP project"]
    ELSE [deps |-> addAll(ds, specs, "peer"), error |-> "none"]

\* addPeerDeps: [deps, error]; refused as a whole for a project that takes no library
\* dependencies
addPeerDeps(ds, specs, allowLib) ==
    IF Len(specs) # 0 /\ ~allowLib
    THEN [deps |-> ds, error |-> "cannot add peer dependencies to an APP project"]
    ELSE [deps |-> addAll(ds, specs, "peer"), error |-> "none"]

\* addBundledDeps refusing a name that is declared as a peer dependency
addBundledDepsChecksPeer(ds, specs, allowLib) ==
    IF Len(specs) # 0 /\ ~allowLib
    THEN [deps |-> ds, error |-> "cannot add bundled dependencies to an APP project"]
    ELSE IF \E i \in 1..Len(specs) : IndexOf(ds, parseDependency(specs[i]).name, "peer") # 0
    THEN [deps |-> ds, error |-> "unable to bundle: it cannot appear as a peer dependency"]
    ELSE [deps |-> addAll(ds, specs, "bundled"), error |-> "none"]

\* addBundledDeps: [deps, error]
addBundledDeps(ds, specs, allowLib) ==
    IF Len(specs) # 0 /\ ~allowLib
    THEN [deps |-> ds, error |-> "cannot add bundled dependencies to an APP project"]
    ELSE [deps |-> addAll(ds, specs, "bundled"), error |-> "none"]

-----------------------------------------------------------------------------
(* NpmPackage.renderDependencies *)

\* this.project.deps.all.filter(d => d.type === DependencyType.PEER)
PeersOf(ds) == SelectSeq(all(ds), LAMBDA d : d.type = "peer")

\* PinnedReq pinning to the declared range instead of its minimum version
PinnedReqRange(dep) ==
    IF ~Falsy(dep.version)
    THEN [error |-> "none", req |-> <<dep.name, "@", dep.version>>]
    ELSE [error |-> "none", req |-> <<dep.name>>]

\* PinnedReq falling back to the bare name when the range has no minimum
PinnedReqNoThrow(dep) ==
    IF ~Falsy(dep.version) /\ minVersion(dep.version) # Throws
                           /\ ~Falsy(minVersion(dep.version))
    THEN [error |-> "none", req |-> <<dep.name, "@", minVersion(dep.version)>>]
    ELSE [error |-> "none", req |-> <<dep.name>>]

\* the req of one peer dependency: its name, with "@" and the minimum version of its range
\* when it has a range; error when the range has no minimum
PinnedReq(dep) ==
    IF ~Falsy(dep.version)
    THEN LET ver == minVersion(dep.version)
         IN IF ver = Throws
            THEN [error |-> "TypeError: Invalid SemVer Range", req |-> <<>>]
            ELSE IF Falsy(ver)
            THEN [error |-> "unable to determine minimum semver for peer dependency",
                  req |-> <<>>]
            ELSE [error |-> "none", req |-> <<dep.name, "@", ver>>]
    ELSE [error |-> "none", req |-> <<dep.name>>]

RECURSIVE PinPeersUnlessDeclared(_, _)
\* PinPeers leaving alone the packages the ledger already holds a BUILD dependency on
PinPeersUnlessDeclared(peers, ds) ==
    IF peers = <<>> THEN [deps |-> ds, error |-> "none"]
    ELSE LET r == PinnedReq(Head(peers))
         IN IF r.error # "none"
            THEN [deps |-> ds, error |-> r.error]
            ELSE IF HasDep(ds, Head(peers).name, "build")
            THEN PinPeersUnlessDeclared(Tail(peers), ds)
            ELSE PinPeersUnlessDeclared(Tail(peers), addDevDeps(ds, <<r.req>>))

RECURSIVE PinPeers(_, _)
\* the loop over the peer dependencies: each adds a BUILD dependency to the ledger; a throw
\* leaves the ledger with the dependencies added so far
PinPeers(peers, ds) ==
    IF peers = <<>> THEN [deps |-> ds, error |-> "none"]
    ELSE LET r == PinnedReq(Head(peers))
         IN IF r.error # "none"
            THEN [deps |-> ds, error |-> r.error]
            ELSE PinPeers(Tail(peers), addDevDeps(ds, <<r.req>>))

EmptyBuckets ==
    [devDependencies |-> <<>>, peerDependencies |-> <<>>, dependencies |-> <<>>,
     bundledDependencies |-> <<>>, error |-> "none"]

\* dep.version without the default
VersionOfNoDefault(dep) == dep.version

\* dep.version ?? '*'
VersionOf(dep) == IF dep.version = Undefined THEN "*" ELSE dep.version

\* the BUNDLED case without the check against the peer dependencies
BundledCaseNoCheck(ds, dep, acc) ==
    [acc EXCEPT !.bundledDependencies = Append(@, dep.name),
                !.dependencies = Put(@, dep.name, VersionOf(dep))]

\* the BUNDLED case without the runtime dependency
BundledCaseNoRuntime(ds, dep, acc) ==
    LET pushed == [acc EXCEPT !.bundledDependencies = Append(@, dep.name)]
    IN IF \E i \in 1..Len(all(ds)) : all(ds)[i].name = dep.name /\ all(ds)[i].type = "peer"
       THEN [pushed EXCEPT !.error = "unable to bundle: it cannot appear as a peer dependency"]
       ELSE pushed

\* the BUNDLED case with unshift in place of push
BundledCaseUnshift(ds, dep, acc) ==
    LET pushed == [acc EXCEPT !.bundledDependencies = <<dep.name>> \o @]
    IN IF \E i \in 1..Len(all(ds)) : all(ds)[i].name = dep.name /\ all(ds)[i].type = "peer"
       THEN [pushed EXCEPT !.error = "unable to bundle: it cannot appear as a peer dependency"]
       ELSE [pushed EXCEPT !.dependencies = Put(@, dep.name, VersionOf(dep))]

\* case DependencyType.BUNDLED: the name is pushed to bundledDependencies, a name that is
\* also a peer dependency throws, and the dependency is added as a runtime dependency
BundledCase(ds, dep, acc) ==
    LET pushed == [acc EXCEPT !.bundledDependencies = Append(@, dep.name)]
    IN IF \E i \in 1..Len(all(ds)) : all(ds)[i].name = dep.name /\ all(ds)[i].type = "peer"
       THEN [pushed EXCEPT !.error = "unable to bundle: it cannot appear as a peer dependency"]
       ELSE [pushed EXCEPT !.dependencies = Put(@, dep.name, VersionOf(dep))]

\* one round of the switch on dep.type
PartitionOne(ds, dep, acc) ==
    LET version == VersionOf(dep)
    IN CASE dep.type = "bundled" -> BundledCase(ds, dep, acc)
         [] dep.type = "peer" ->
              [acc EXCEPT !.peerDependencies = Put(@, dep.name, version)]
         [] dep.type = "runtime" ->
              [acc EXCEPT !.dependencies = Put(@, dep.name, version)]
         [] dep.type \in {"test", "devenv", "build"} ->
              [acc EXCEPT !.devDependencies = Put(@, dep.name, version)]
         [] OTHER -> acc

RECURSIVE Partition(_, _, _)
\* the loop over this.project.deps.all, from entry i on; a throw ends it
Partition(ds, i, acc) ==
    IF i > Len(all(ds)) \/ acc.error # "none" THEN acc
    ELSE Partition(ds, i + 1, PartitionOne(ds, all(ds)[i], acc))

\* readDepsEntry without the test that the user's version is "*"
readDepsEntryKeepsRecorded(userVersion, currentVersion) ==
    IF Falsy(currentVersion) \/ currentVersion = "*" THEN userVersion ELSE currentVersion

\* readDepsEntry of a readDeps that reconciles nothing
readDepsEntryKeepsUser(userVersion, currentVersion) == userVersion

\* the version readDeps leaves for one entry of the user's bucket
readDepsEntry(userVersion, currentVersion) ==
    IF userVersion # "*" \/ Falsy(currentVersion) \/ currentVersion = "*"
    THEN userVersion
    ELSE currentVersion

\* readDeps carrying over the entries that only the package.json on disk has
readDepsMerging(user, current) ==
    [i \in 1..Len(user) |-> <<user[i][1], readDepsEntry(user[i][2], Get(current, user[i][1]))>>]
    \o SelectSeq(current, LAMBDA e : e[1] \notin KeySet(user))

\* readDeps(user, current): the user's bucket, each "*" replaced by the version the
\* package.json on disk records
readDeps(user, current) ==
    [i \in 1..Len(user) |-> <<user[i][1], readDepsEntry(user[i][2], Get(current, user[i][1]))>>]

\* the `${name}: removed` lines readDeps logs
readDepsRemoved(user, current) ==
    {[level |-> "verbose", msg |-> n \o ": removed"] :
        n \in {k \in KeySet(current) : Falsy(Get(user, k))}}

\* pkg[field], or the default {} of readDeps when the file has no such field
FieldOrEmpty(pkg, field) == IF field \in pkg.has THEN pkg[field] ELSE <<>>

\* renderDependencies: the ledger after the pinning loop, the error thrown if any, the
\* buckets assigned to the manifest, the snapshot returned, and what was logged
renderDependencies(ds, pinned, pkg) ==
    LET pin  == IF pinned THEN PinPeers(PeersOf(ds), ds) ELSE [deps |-> ds, error |-> "none"]
        part == Partition(pin.deps, 1, EmptyBuckets)
        dev  == IF pkg.exists
                THEN readDeps(part.devDependencies, FieldOrEmpty(pkg, "devDependencies"))
                ELSE part.devDependencies
        run  == IF pkg.exists
                THEN readDeps(part.dependencies, FieldOrEmpty(pkg, "dependencies"))
                ELSE part.dependencies
        peer == IF pkg.exists
                THEN readDeps(part.peerDependencies, FieldOrEmpty(pkg, "peerDependencies"))
                ELSE part.peerDependencies
    IN IF pin.error # "none"
       THEN [deps |-> pin.deps, error |-> pin.error, returned |-> FALSE]
       ELSE IF part.error # "none"
       THEN [deps |-> pin.deps, error |-> part.error, returned |-> FALSE]
       ELSE [deps |-> pin.deps, error |-> "none", returned |-> TRUE,
             devDependencies |-> dev, peerDependencies |-> peer, dependencies |-> run,
             bundledDependencies |-> part.bundledDependencies,
             log |-> IF pkg.exists
                     THEN readDepsRemoved(dev, FieldOrEmpty(pkg, "devDependencies"))
                          \cup readDepsRemoved(run, FieldOrEmpty(pkg, "dependencies"))
                          \cup readDepsRemoved(peer, FieldOrEmpty(pkg, "peerDependencies"))
                     ELSE {}]

-----------------------------------------------------------------------------
(* NpmPackage.resolveDepsAndWritePackageJson *)

\* require.resolve(`${name}/package.json`) and readJsonSync of it: Undefined when it throws
ModuleVersion(inst, name) == inst[name]

\* DesiredVersion without the test that the definition is "*"
DesiredVersionAlways(inst, name, currentDefinition) ==
    IF ModuleVersion(inst, name) # Undefined
    THEN "^" \o ModuleVersion(inst, name)
    ELSE currentDefinition

\* the desiredVersion of one entry: "^" + the installed version for a "*" that resolves
DesiredVersion(inst, name, currentDefinition) ==
    IF currentDefinition = "*" /\ ModuleVersion(inst, name) # Undefined
    THEN "^" \o ModuleVersion(inst, name)
    ELSE currentDefinition

\* Unresolved as a test of the lookup having failed
UnresolvedOnFailure(inst, name, currentDefinition) ==
    currentDefinition = "*" /\ ModuleVersion(inst, name) = Undefined

\* whether the loop skips the entry with a warning
Unresolved(inst, name, currentDefinition) ==
    currentDefinition = "*" /\ Falsy(DesiredVersion(inst, name, currentDefinition))

RECURSIVE ResolveLoop(_, _, _, _)
\* the loop over Object.entries(user), from entry i on, filling result
ResolveLoop(inst, user, i, result) ==
    IF i > Len(user) THEN result
    ELSE LET name == user[i][1]
             currentDefinition == user[i][2]
         IN IF Unresolved(inst, name, currentDefinition)
            THEN ResolveLoop(inst, user, i + 1, result)
            ELSE ResolveLoop(inst, user, i + 1,
                             Put(result, name, DesiredVersion(inst, name, currentDefinition)))

\* resolveDeps(current, user): the map written to package.json
resolveDeps(inst, current, user) == sorted(ResolveLoop(inst, user, 1, <<>>))

\* the names resolveDeps looks up in node_modules: those whose definition is "*"
resolveDepsLookups(user) == {user[i][1] : i \in {j \in 1..Len(user) : user[j][2] = "*"}}

\* what resolveDeps logs
resolveDepsLog(inst, current, user) ==
    LET result == ResolveLoop(inst, user, 1, <<>>)
        U == 1..Len(user)
    IN {[level |-> "warn",
         msg |-> "unable to resolve version for " \o user[i][1] \o " from installed modules"] :
            i \in {j \in U : Unresolved(inst, user[j][1], user[j][2])}}
       \cup
       {[level |-> "verbose",
         msg |-> user[i][1] \o ": " \o user[i][2] \o " => "
                    \o DesiredVersion(inst, user[i][1], user[i][2])] :
            i \in {j \in U : /\ ~Unresolved(inst, user[j][1], user[j][2])
                             /\ user[j][2] # DesiredVersion(inst, user[j][1], user[j][2])}}
       \cup
       {[level |-> "verbose", msg |-> n \o " removed"] :
            n \in {k \in KeySet(current) : Falsy(Get(result, k))}}

DepFields == {"dependencies", "devDependencies", "peerDependencies"}

\* resolveDepsAndWritePackageJson testing for the snapshot before it reads package.json
resolveDepsAssertsFirst(inst, file, rendered) ==
    IF ~rendered.defined
    THEN [error |-> "assertion failed", written |-> FALSE]
    ELSE IF ~file.exists
    THEN [error |-> "ENOENT: package.json", written |-> FALSE]
    ELSE IF ~(DepFields \subseteq file.has)
    THEN [error |-> "TypeError: Cannot convert undefined or null to object", written |-> FALSE]
    ELSE [error |-> "none", written |-> TRUE,
          file |-> [file EXCEPT
              !.dependencies = resolveDeps(inst, file.dependencies, rendered.dependencies),
              !.devDependencies = resolveDeps(inst, file.devDependencies, rendered.devDependencies),
              !.peerDependencies = resolveDeps(inst, file.peerDependencies, rendered.peerDependencies)],
          lookups |-> {}, log |-> {}]

\* resolveDepsAndWritePackageJson writing the snapshot alone, which has no bundled
\* dependencies, over the file
resolveDepsAndWriteSnapshot(inst, file, rendered) ==
    IF ~file.exists
    THEN [error |-> "ENOENT: package.json", written |-> FALSE]
    ELSE IF ~rendered.defined
    THEN [error |-> "assertion failed", written |-> FALSE]
    ELSE IF ~(DepFields \subseteq file.has)
    THEN [error |-> "TypeError: Cannot convert undefined or null to object", written |-> FALSE]
    ELSE [error |-> "none", written |-> TRUE,
          file |-> [file EXCEPT
              !.bundledDependencies = <<>>,
              !.dependencies = resolveDeps(inst, file.dependencies, rendered.dependencies),
              !.devDependencies = resolveDeps(inst, file.devDependencies, rendered.devDependencies),
              !.peerDependencies = resolveDeps(inst, file.peerDependencies, rendered.peerDependencies)],
          lookups |->
              {<<"dependencies", n>> : n \in resolveDepsLookups(rendered.dependencies)}
              \cup {<<"devDependencies", n>> : n \in resolveDepsLookups(rendered.devDependencies)}
              \cup {<<"peerDependencies", n>> : n \in resolveDepsLookups(rendered.peerDependencies)},
          log |->
              resolveDepsLog(inst, file.dependencies, rendered.dependencies)
              \cup resolveDepsLog(inst, file.devDependencies, rendered.devDependencies)
              \cup resolveDepsLog(inst, file.peerDependencies, rendered.peerDependencies)]

\* resolveDepsAndWritePackageJson(outdir): the error thrown if any, the file written, the
\* lookups made and the lines logged
resolveDepsAndWritePackageJson(inst, file, rendered) ==
    IF ~file.exists
    THEN [error |-> "ENOENT: package.json", written |-> FALSE]
    ELSE IF ~rendered.defined
    THEN [error |-> "assertion failed", written |-> FALSE]
    ELSE IF ~(DepFields \subseteq file.has)
    THEN [error |-> "TypeError: Cannot convert undefined or null to object", written |-> FALSE]
    ELSE [error |-> "none", written |-> TRUE,
          file |-> [file EXCEPT
              !.dependencies = resolveDeps(inst, file.dependencies, rendered.dependencies),
              !.devDependencies = resolveDeps(inst, file.devDependencies, rendered.devDependencies),
              !.peerDependencies = resolveDeps(inst, file.peerDependencies, rendered.peerDependencies)],
          lookups |->
              {<<"dependencies", n>> : n \in resolveDepsLookups(rendered.dependencies)}
              \cup {<<"devDependencies", n>> : n \in resolveDepsLookups(rendered.devDependencies)}
              \cup {<<"peerDependencies", n>> : n \in resolveDepsLookups(rendered.peerDependencies)},
          log |->
              resolveDepsLog(inst, file.dependencies, rendered.dependencies)
              \cup resolveDepsLog(inst, file.devDependencies, rendered.devDependencies)
              \cup resolveDepsLog(inst, file.peerDependencies, rendered.peerDependencies)]

-----------------------------------------------------------------------------
(* The files and the installed modules the program finds *)

NoFile == [exists |-> FALSE]

\* a package.json of an earlier run: concrete versions, a "*" and an empty version
PriorA ==
    [exists |-> TRUE,
     has |-> {"dependencies", "devDependencies", "peerDependencies", "bundledDependencies"},
     dependencies |-> << <<"left-pad", "^1.2.0">>, <<"react", "*">> >>,
     devDependencies |-> << <<"react", "^16.8.0">>, <<"test-lib", "">> >>,
     peerDependencies |-> << <<"react", "^16.8.0">> >>,
     bundledDependencies |-> <<>>]

\* a package.json without peerDependencies
PriorB ==
    [exists |-> TRUE,
     has |-> {"dependencies", "devDependencies", "bundledDependencies"},
     dependencies |-> << <<"react", "^16.8.0">> >>,
     devDependencies |-> << <<"test-lib", "^3.1.4">> >>,
     peerDependencies |-> <<>>,
     bundledDependencies |-> << "react" >>]

PriorFiles == {NoFile, PriorA, PriorB}

NothingInstalled == [n \in Names |-> Undefined]

\* what node_modules holds after the install command
InstalledStates ==
    { NothingInstalled,
      [n \in Names |-> CASE n = "left-pad" -> "1.3.0" [] n = "react" -> "16.13.1"
                         [] OTHER -> "3.2.0"],
      [n \in Names |-> IF n = "react" THEN "16.13.1" ELSE Undefined],
      [n \in Names |-> IF n = "react" THEN Undefined ELSE "1.3.0"] }

-----------------------------------------------------------------------------
(* The task graph: project.tasks, Task *)

DuplicateTaskError == "DuplicateTaskError"

\* the position of the task called name in ts, 0 if there is none
TaskIndex(ts, name) ==
    IF \E i \in 1..Len(ts) : ts[i].name = name
    THEN CHOOSE i \in 1..Len(ts) : ts[i].name = name
    ELSE 0

\* project.addTask(name, { exec }): defines a task, with one exec step if exec is given
addTask(ts, name, shell) ==
    IF TaskIndex(ts, name) # 0
    THEN [tasks |-> ts, error |-> DuplicateTaskError]
    ELSE [tasks |-> Append(ts, [name |-> name,
                                steps |-> IF shell = Undefined THEN <<>>
                                          ELSE <<[kind |-> "exec", arg |-> shell]>>]),
          error |-> "none"]

\* task.exec(command)
exec(ts, name, command) ==
    [ts EXCEPT ![TaskIndex(ts, name)].steps = Append(@, [kind |-> "exec", arg |-> command])]

\* task.spawn(subtask)
spawn(ts, name, subtask) ==
    [ts EXCEPT ![TaskIndex(ts, name)].steps = Append(@, [kind |-> "spawn", arg |-> subtask])]

RECURSIVE Flatten(_, _, _)
\* the shell fragments of the steps of a task from step i on, each spawn replaced by the
\* fragments of the task it names
Flatten(ts, name, i) ==
    LET steps == ts[TaskIndex(ts, name)].steps
    IN IF i > Len(steps) THEN <<>>
       ELSE (IF steps[i].kind = "spawn" THEN Flatten(ts, steps[i].arg, 1)
             ELSE <<steps[i].arg>>)
            \o Flatten(ts, name, i + 1)

RECURSIVE JoinWith(_, _)
\* pieces.join(sep)
JoinWith(pieces, sep) ==
    IF Len(pieces) = 0 THEN ""
    ELSE IF Len(pieces) = 1 THEN pieces[1]
    ELSE pieces[1] \o sep \o JoinWith(Tail(pieces), sep)

CycleError == "CycleError"

\* the tasks that the steps of the task called name spawn
SpawnsOf(ts, name) ==
    LET steps == ts[TaskIndex(ts, name)].steps
    IN {steps[j].arg : j \in {k \in 1..Len(steps) : steps[k].kind = "spawn"}}

RECURSIVE SpawnClosure(_, _, _)
\* the tasks reached from the tasks of S by at most n spawns, one at least
SpawnClosure(ts, S, n) ==
    LET next == UNION {SpawnsOf(ts, t) : t \in S}
    IN IF n = 0 THEN {} ELSE next \cup SpawnClosure(ts, next, n - 1)

\* the depth-first walk from the task called name meets a task that is in progress
InCycle(ts, name) ==
    \E t \in {name} \cup SpawnClosure(ts, {name}, Len(ts)) :
        t \in SpawnClosure(ts, {t}, Len(ts))

\* task.toShellCommand(): the steps as one shell command line, CycleError when it throws
toShellCommand(ts, name) ==
    IF InCycle(ts, name) THEN CycleError ELSE JoinWith(Flatten(ts, name, 1), "; ")

\* the number of steps of all tasks together
StepCount(ts) ==
    Cardinality(UNION {{<<i, j>> : j \in 1..Len(ts[i].steps)} : i \in 1..Len(ts)})

-----------------------------------------------------------------------------
(* NpmPackage and NodeProject: options, scripts and commands of tasks *)

\* NpmTaskExecution
PROJEN == "projen"
SHELL == "shell"

\* NodePackageManager
YARN == "yarn"
NPM == "npm"

\* the options a project is constructed with; Undefined is an option left out
ModeOptions == {Undefined, SHELL, "make"}
PackageManagerOptions == {Undefined, NPM, "pnpm"}
ProjenCommandOptions == {Undefined, "node ./projen.js"}
ScriptOptions == { <<>>, << <<"lint", "eslint .">> >>, << <<"compile", "tsc -p .">> >> }

\* the <<name, command>> arguments of setScript and the names given to removeScript
SetScriptInputs == {<<"build", "make">>, <<"docs", "typedoc">>, <<"start", "node .">>}
RemoveScriptInputs == {"start", "build", "docs"}

\* the <<task, command>> arguments of task.exec and the <<task, subtask>> of task.spawn
ExecInputs == {<<"compile", "tsc">>, <<"test", "jest">>, <<"test:compile", "tsc --noEmit">>}
SpawnInputs ==
    {<<"build", "compile">>, <<"build", "test">>, <<"lint", "compile">>,
     <<"compile", "build">>, <<"test:compile", "test:compile">>}

\* an optional boolean of the options: left out, or given
Unset == [set |-> FALSE]
Given(value) == [set |-> TRUE, value |-> value]

\* option ?? default
OrElse(option, default) == IF option.set THEN option.value ELSE default

OptionSets ==
    [npmTaskExecution : ModeOptions, packageManager : PackageManagerOptions,
     projenCommand : ProjenCommandOptions, scripts : ScriptOptions,
     buildWorkflow : {Unset}, antitamper : {Unset}, releaseWorkflow : {Unset},
     rebuildBot : {Unset}, codeCov : {Unset}, jest : {Unset},
     workflowNodeVersion : {Undefined}, parent : {FALSE}, github : {TRUE}]

DefaultOptions ==
    [npmTaskExecution |-> Undefined, packageManager |-> Undefined,
     projenCommand |-> Undefined, scripts |-> <<>>,
     buildWorkflow |-> Unset, antitamper |-> Unset, releaseWorkflow |-> Unset,
     rebuildBot |-> Unset, codeCov |-> Unset, jest |-> Unset,
     workflowNodeVersion |-> Undefined, parent |-> FALSE, github |-> TRUE]

\* the options that decide which workflows the constructor adds and what steps they have;
\* parent and github stand for the parent and the GitHub support a project is given
WorkflowOptionSets ==
    [npmTaskExecution : {Undefined}, packageManager : {Undefined},
     projenCommand : {Undefined}, scripts : {<<>>},
     buildWorkflow : {Unset, Given(TRUE), Given(FALSE)},
     antitamper : {Unset, Given(TRUE), Given(FALSE)},
     releaseWorkflow : {Unset, Given(FALSE)},
     rebuildBot : {Unset, Given(FALSE)},
     codeCov : {Unset, Given(TRUE)}, jest : {Unset, Given(FALSE)},
     workflowNodeVersion : {Undefined, "12.x"}, parent : BOOLEAN, github : BOOLEAN]

\* this.npmTaskExecution = options.npmTaskExecution ?? NpmTaskExecution.PROJEN
npmTaskExecution(opts) ==
    IF opts.npmTaskExecution = Undefined THEN PROJEN ELSE opts.npmTaskExecution

\* this.projenCommand = options.projenCommand ?? 'npx projen'
projenCommand(opts) ==
    IF opts.projenCommand = Undefined THEN "npx projen" ELSE opts.projenCommand

\* this.packageManager = options.packageManager ?? NodePackageManager.YARN
packageManager(opts) ==
    IF opts.packageManager = Undefined THEN YARN ELSE opts.packageManager

\* this.runScriptCommand, Throws when the package manager is neither npm nor yarn
runScriptCommand(opts) ==
    CASE packageManager(opts) = NPM -> "npm run"
      [] packageManager(opts) = YARN -> "yarn run"
      [] OTHER -> Throws

RECURSIVE AddTasks(_, _, _)
\* project.addTask(name, { exec: shell }) for the <<name, shell>> entries from i on,
\* stopping at the first that throws
AddTasks(ts, entries, i) ==
    IF i > Len(entries) THEN [tasks |-> ts, error |-> "none"]
    ELSE LET r == addTask(ts, entries[i][1], entries[i][2])
         IN IF r.error # "none" THEN r ELSE AddTasks(r.tasks, entries, i + 1)

\* the constructor of NpmPackage: the scripts of the options become tasks
NpmPackageTasks(opts) == AddTasks(<<>>, opts.scripts, 1)

\* the tasks the constructor of NodeProject defines, before test spawns test:compile
StandardTasks == << <<"compile", Undefined>>, <<"test:compile", Undefined>>, <<"test", Undefined>> >>

\* TestSpawns of a constructor that leaves the test task without steps
TestSpawnsNothing(ts) == ts

\* this.testTask.spawn(this.testCompileTask)
TestSpawns(ts) == spawn(ts, "test", "test:compile")

\* the constructor of NodeProject: the tasks and scripts of the project, or the error thrown
NodeProject(opts) ==
    LET own == NpmPackageTasks(opts)
        std == AddTasks(own.tasks, StandardTasks, 1)
        bld == addTask(TestSpawns(std.tasks), "build", Undefined)
        failed(e) == [error |-> e, tasks |-> <<>>, scripts |-> <<>>]
    IN IF own.error # "none" THEN failed(own.error)
       ELSE IF runScriptCommand(opts) = Throws THEN failed("unexpected package manager")
       ELSE IF std.error # "none" THEN failed(std.error)
       ELSE IF bld.error # "none" THEN failed(bld.error)
       ELSE [error |-> "none", tasks |-> bld.tasks,
             scripts |-> << <<"projen", <<projenCommand(opts)>> >>,
                            <<"start", <<projenCommand(opts) \o " start">> >> >>]

\* npmScriptForTask with the script command of the package manager in SHELL mode
npmScriptForTaskAsRun(opts, ts, name) ==
    CASE npmTaskExecution(opts) = PROJEN ->
            [error |-> "none", command |-> projenCommand(opts) \o " " \o name]
      [] npmTaskExecution(opts) = SHELL ->
            [error |-> "none", command |-> runScriptCommand(opts) \o " " \o name]
      [] OTHER -> [error |-> "invalid npmTaskExecution mode"]

\* npmScriptForTask with the spawns of the task resolved in every mode
npmScriptForTaskResolved(opts, ts, name) ==
    IF toShellCommand(ts, name) = CycleError THEN [error |-> CycleError]
    ELSE CASE npmTaskExecution(opts) = PROJEN ->
                 [error |-> "none", command |-> projenCommand(opts) \o " " \o name]
           [] npmTaskExecution(opts) = SHELL ->
                 [error |-> "none", command |-> toShellCommand(ts, name)]
           [] OTHER -> [error |-> "invalid npmTaskExecution mode"]

\* NpmPackage.npmScriptForTask(task)
npmScriptForTask(opts, ts, name) ==
    CASE npmTaskExecution(opts) = PROJEN ->
            [error |-> "none", command |-> projenCommand(opts) \o " " \o name]
      [] npmTaskExecution(opts) = SHELL ->
            IF toShellCommand(ts, name) = CycleError THEN [error |-> CycleError]
            ELSE [error |-> "none", command |-> toShellCommand(ts, name)]
      [] OTHER -> [error |-> "invalid npmTaskExecution mode"]

RECURSIVE TaskScripts(_, _, _, _)
\* the second loop of renderScripts, from task i on: result[task.name] = npmScriptForTask(task)
TaskScripts(opts, ts, i, result) ==
    IF i > Len(ts) THEN [error |-> "none", scripts |-> result]
    ELSE LET r == npmScriptForTask(opts, ts, ts[i].name)
         IN IF r.error # "none" THEN [error |-> r.error]
            ELSE TaskScripts(opts, ts, i + 1, Put(result, ts[i].name, r.command))

RECURSIVE OwnScripts(_, _, _)
\* the first loop of renderScripts, from entry i on: the commands of a script joined by &&
OwnScripts(scr, i, result) ==
    IF i > Len(scr) THEN result
    ELSE OwnScripts(scr, i + 1,
             Put(result, scr[i][1],
                 JoinWith(IF Len(scr[i][2]) > 0 THEN scr[i][2] ELSE <<"echo \"n/a\"">>, " && ")))

\* renderScripts with the loop over this.scripts after the loop over the tasks
renderScriptsTasksFirst(opts, scr, ts) ==
    LET t == TaskScripts(opts, ts, 1, <<>>)
    IN IF t.error # "none" THEN t
       ELSE [error |-> "none", scripts |-> OwnScripts(scr, 1, t.scripts)]

\* NpmPackage.setScript(name, command): this.scripts[name] = [command]
setScript(scr, name, command) == Put(scr, name, <<command>>)

\* NpmPackage.removeScript(name): delete this.scripts[name]
removeScript(scr, name) == SelectSeq(scr, LAMBDA e : e[1] # name)

\* NpmPackage.renderScripts()
renderScripts(opts, scr, ts) == TaskScripts(opts, ts, 1, OwnScripts(scr, 1, <<>>))

\* runTaskCommand with yarn whatever the package manager is
runTaskCommandYarn(opts, name) ==
    CASE npmTaskExecution(opts) = PROJEN ->
            [error |-> "none", command |-> projenCommand(opts) \o " " \o name]
      [] npmTaskExecution(opts) = SHELL ->
            [error |-> "none", command |-> "yarn run " \o name]
      [] OTHER -> [error |-> "invalid npmTaskExecution mode"]

\* NodeProject.runTaskCommand(task)
runTaskCommand(opts, name) ==
    CASE npmTaskExecution(opts) = PROJEN ->
            [error |-> "none", command |-> projenCommand(opts) \o " " \o name]
      [] npmTaskExecution(opts) = SHELL ->
            [error |-> "none", command |-> runScriptCommand(opts) \o " " \o name]
      [] OTHER -> [error |-> "invalid npmTaskExecution mode"]

-----------------------------------------------------------------------------
(* NodeProject: the build workflows *)

\* this.antitamper: the build workflow is on and the antitamper option is not false
antitamper(opts) == OrElse(opts.buildWorkflow, ~opts.parent) /\ OrElse(opts.antitamper, TRUE)

\* NodeProject.installWorkflowSteps: the names of the steps
installWorkflowSteps(opts) ==
    (IF opts.workflowNodeVersion # Undefined THEN <<"Setup Node.js">> ELSE <<>>)
    \o <<"Install dependencies", "Synthesize project files">>

\* antitamperSteps of a workflow that cannot disable the check
antitamperStepsByFlag(opts, wo) ==
    IF ~antitamper(opts) THEN <<>> ELSE <<"Anti-tamper check">>

\* antitamperSteps of createBuildWorkflow
antitamperSteps(opts, wo) ==
    IF wo.antitamperDisabled \/ ~antitamper(opts) THEN <<>> ELSE <<"Anti-tamper check">>

\* createBuildWorkflow(name, options): the names of the steps of the build job, or the
\* error thrown
createBuildWorkflow(opts, wo) ==
    IF ~opts.github THEN [error |-> "no github support"]
    ELSE [error |-> "none",
          steps |->
              wo.preCheckoutSteps
              \o <<"Checkout">>
              \o installWorkflowSteps(opts)
              \o antitamperSteps(opts, wo)
              \o <<"Set git identity">>
              \o wo.preBuildSteps
              \o <<"Build">>
              \o (IF wo.codeCov /\ OrElse(opts.jest, TRUE)
                  THEN <<"Upload coverage to Codecov">> ELSE <<>>)
              \o antitamperSteps(opts, wo)
              \o (IF Falsy(wo.commit) THEN <<>> ELSE <<"Commit changes">>)
              \o (IF Falsy(wo.pushBranch) THEN <<>> ELSE <<"Push changes">>)
              \o wo.postSteps
              \o (IF wo.uploadArtifact THEN <<"Upload artifact">> ELSE <<>>)]

\* the options the constructor passes for the Build workflow
BuildOptions(opts) ==
    [antitamperDisabled |-> FALSE, commit |-> Undefined, pushBranch |-> Undefined,
     preCheckoutSteps |-> <<>>, preBuildSteps |-> <<>>, postSteps |-> <<>>,
     uploadArtifact |-> FALSE, codeCov |-> OrElse(opts.codeCov, FALSE)]

\* the options the constructor passes for the Release workflow
ReleaseOptions(opts) ==
    [antitamperDisabled |-> FALSE, commit |-> Undefined, pushBranch |-> "${{ github.ref }}",
     preCheckoutSteps |-> <<>>, preBuildSteps |-> <<"Bump to next version">>,
     postSteps |-> <<>>, uploadArtifact |-> TRUE, codeCov |-> OrElse(opts.codeCov, FALSE)]

\* the options addRebuildBot passes
RebuildBotOptions ==
    [antitamperDisabled |-> TRUE, commit |-> "chore: update generated files",
     pushBranch |-> "${{ steps.query_pull_request.outputs.branch }}",
     preCheckoutSteps |-> <<"Post comment to issue", "Get pull request branch">>,
     preBuildSteps |-> <<>>, postSteps |-> <<"Post comment to issue">>,
     uploadArtifact |-> FALSE, codeCov |-> FALSE]

\* one block of the constructor: if (enabled) createBuildWorkflow(name, wo)
WorkflowBlock(wfs, opts, enabled, name, wo) ==
    LET r == createBuildWorkflow(opts, wo)
    IN IF ~enabled THEN [error |-> "none", all |-> wfs]
       ELSE IF r.error # "none" THEN [error |-> r.error, all |-> wfs]
       ELSE [error |-> "none", all |-> Append(wfs, [name |-> name, steps |-> r.steps])]

\* the three blocks of the constructor that add a workflow, in their order
BuildBlock(wfs, opts) ==
    WorkflowBlock(wfs, opts, OrElse(opts.buildWorkflow, ~opts.parent), "Build",
                  BuildOptions(opts))
ReleaseBlock(wfs, opts) ==
    WorkflowBlock(wfs, opts, OrElse(opts.releaseWorkflow, ~opts.parent), "Release",
                  ReleaseOptions(opts))
RebuildBotBlock(wfs, opts) ==
    WorkflowBlock(wfs, opts, OrElse(opts.rebuildBot, ~opts.parent), "rebuild-bot",
                  RebuildBotOptions)

\* the workflows of a project whose constructor has returned
Workflows(opts) ==
    RebuildBotBlock(ReleaseBlock(BuildBlock(<<>>, opts).all, opts).all, opts).all

-----------------------------------------------------------------------------
(* The synthesis lifecycle *)

\* the components of the project in registration order: NpmPackage registers itself, then
\* constructs the JsonFile of package.json
Components == <<"NpmPackage", "JsonFile">>

Phases == <<"PreSynthesizing", "Synthesizing", "PostSynthesizing">>

NextPhase(ph) ==
    CASE ph = "PreSynthesizing" -> "Synthesizing"
      [] ph = "Synthesizing" -> "PostSynthesizing"
      [] OTHER -> "Done"

\* AfterHook of an orchestrator that runs the three hooks of a component, then the three
\* of the next
AfterHookByComponent(ph, i) ==
    IF ph # "PostSynthesizing" THEN [phase |-> NextPhase(ph), idx |-> i]
    ELSE IF i < Len(Components) THEN [phase |-> "PreSynthesizing", idx |-> i + 1]
    ELSE [phase |-> "Done", idx |-> 1]

\* the hook that runs after hook i of phase ph
AfterHook(ph, i) ==
    IF i < Len(Components) THEN [phase |-> ph, idx |-> i + 1]
    ELSE [phase |-> NextPhase(ph), idx |-> 1]

Running(ph, component) ==
    /\ error = "none"
    /\ phase = ph
    /\ Components[idx] = component

Init ==
    /\ deps = <<>>
    /\ pinnedDevDependency \in BOOLEAN
    /\ allowLibraryDependencies \in BOOLEAN
    /\ manifest = [devDependencies |-> <<>>, peerDependencies |-> <<>>,
                   dependencies |-> <<>>, bundledDependencies |-> <<>>]
    /\ renderedDeps = [defined |-> FALSE]
    /\ pkgFile \in PriorFiles
    /\ installed = NothingInstalled
    /\ lookups = {}
    /\ log = {}
    /\ phase = "Idle"
    /\ idx = 1
    /\ error = "none"
    /\ renders = 0
    /\ lastWritten = NoFile
    /\ options = DefaultOptions
    /\ tasks = NodeProject(options).tasks
    /\ scripts = NodeProject(options).scripts
    /\ renderedScripts = [defined |-> FALSE]
    /\ runCommand = [defined |-> FALSE]
    /\ workflows = [next |-> "done", all |-> Workflows(options)]

Declaring == phase = "Idle" /\ error = "none" /\ Len(deps) < MaxDeps

\* project.addDeps(dep)
AddDeps ==
    /\ UNCHANGED <<renders, lastWritten, taskVars>>
    /\ Declaring
    /\ \E spec \in RuntimeSpecs : deps' = addDeps(deps, <<spec>>)
    /\ UNCHANGED <<pinnedDevDependency, allowLibraryDependencies, manifest, renderedDeps,
                   pkgFile, installed, lookups, log, phase, idx, error>>

\* project.addDevDeps(dep)
AddDevDeps ==
    /\ UNCHANGED <<renders, lastWritten, taskVars>>
    /\ Declaring
    /\ \E spec \in DevSpecs : deps' = addDevDeps(deps, <<spec>>)
    /\ UNCHANGED <<pinnedDevDependency, allowLibraryDependencies, manifest, renderedDeps,
                   pkgFile, installed, lookups, log, phase, idx, error>>

\* project.addPeerDeps(...deps)
AddPeerDeps ==
    /\ UNCHANGED <<renders, lastWritten, taskVars>>
    /\ Declaring
    /\ \E specs \in PeerCalls :
          LET r == addPeerDeps(deps, specs, allowLibraryDependencies)
          IN /\ Len(deps) + Len(specs) <= MaxDeps
             /\ deps' = r.deps
             /\ error' = r.error
    /\ UNCHANGED <<pinnedDevDependency, allowLibraryDependencies, manifest, renderedDeps,
                   pkgFile, installed, lookups, log, phase, idx>>

\* project.addBundledDeps(...deps)
AddBundledDeps ==
    /\ UNCHANGED <<renders, lastWritten, taskVars>>
    /\ Declaring
    /\ \E specs \in BundledCalls :
          LET r == addBundledDeps(deps, specs, allowLibraryDependencies)
          IN /\ Len(deps) + Len(specs) <= MaxDeps
             /\ deps' = r.deps
             /\ error' = r.error
    /\ UNCHANGED <<pinnedDevDependency, allowLibraryDependencies, manifest, renderedDeps,
                   pkgFile, installed, lookups, log, phase, idx>>

\* project.deps.addDependency(dep, type) by another component
AddDependency ==
    /\ UNCHANGED <<renders, lastWritten, taskVars>>
    /\ Declaring
    /\ \E d \in DirectSpecs : deps' = addDependency(deps, d[1], d[2])
    /\ UNCHANGED <<pinnedDevDependency, allowLibraryDependencies, manifest, renderedDeps,
                   pkgFile, installed, lookups, log, phase, idx, error>>

\* project.synth() starts
Synth ==
    /\ UNCHANGED <<renders, lastWritten, taskVars>>
    /\ phase = "Idle" /\ error = "none"
    /\ phase' = "PreSynthesizing" /\ idx' = 1
    /\ UNCHANGED <<deps, pinnedDevDependency, allowLibraryDependencies, manifest,
                   renderedDeps, pkgFile, installed, lookups, log, error>>

\* NpmPackage.preSynthesize: this._renderedDeps = this.renderDependencies()
PreSynthesize ==
    /\ renders' = renders + 1
    /\ UNCHANGED lastWritten
    /\ UNCHANGED taskVars
    /\ Running("PreSynthesizing", "NpmPackage")
    /\ LET r == renderDependencies(deps, pinnedDevDependency, pkgFile)
       IN /\ deps' = r.deps
          /\ error' = r.error
          /\ IF r.returned
             THEN /\ manifest' = [devDependencies |-> r.devDependencies,
                                  peerDependencies |-> r.peerDependencies,
                                  dependencies |-> r.dependencies,
                                  bundledDependencies |-> r.bundledDependencies]
                  /\ renderedDeps' = [defined |-> TRUE,
                                      devDependencies |-> r.devDependencies,
                                      peerDependencies |-> r.peerDependencies,
                                      dependencies |-> r.dependencies]
                  /\ log' = log \cup r.log
                  /\ phase' = AfterHook(phase, idx).phase
                  /\ idx' = AfterHook(phase, idx).idx
             ELSE UNCHANGED <<manifest, renderedDeps, log, phase, idx>>
    /\ UNCHANGED <<pinnedDevDependency, allowLibraryDependencies, pkgFile, installed, lookups>>

\* NpmPackage.preSynthesize called once more, before anything else has run: the ledger is
\* the one the last call left and package.json is the one it read
RenderAgain ==
    /\ Running("PreSynthesizing", "JsonFile")
    /\ renders < MaxRenders
    /\ renders' = renders + 1
    /\ UNCHANGED lastWritten
    /\ LET r == renderDependencies(deps, pinnedDevDependency, pkgFile)
       IN /\ deps' = r.deps
          /\ error' = r.error
          /\ IF r.returned
             THEN /\ manifest' = [devDependencies |-> r.devDependencies,
                                  peerDependencies |-> r.peerDependencies,
                                  dependencies |-> r.dependencies,
                                  bundledDependencies |-> r.bundledDependencies]
                  /\ renderedDeps' = [defined |-> TRUE,
                                      devDependencies |-> r.devDependencies,
                                      peerDependencies |-> r.peerDependencies,
                                      dependencies |-> r.dependencies]
                  /\ log' = log \cup r.log
             ELSE UNCHANGED <<manifest, renderedDeps, log>>
    /\ UNCHANGED <<pinnedDevDependency, allowLibraryDependencies, pkgFile, installed, lookups,
                   phase, idx, taskVars>>

\* this._version.currentVersion, which the constructor of NodeProject passes to addVersion
currentVersion == "0.0.0"


\* JsonFile.synthesize: package.json is written from the manifest
Synthesize ==
    /\ UNCHANGED <<renders, lastWritten, taskVars>>
    /\ Running("Synthesizing", "JsonFile")
    /\ LET s == renderScripts(options, scripts, tasks)
       IN /\ error' = s.error
          /\ IF s.error = "none"
             THEN /\ pkgFile' = [exists |-> TRUE,
                                 has |-> {"dependencies", "devDependencies",
                                          "peerDependencies", "bundledDependencies",
                                          "scripts", "version"},
                                 dependencies |-> manifest.dependencies,
                                 devDependencies |-> manifest.devDependencies,
                                 peerDependencies |-> manifest.peerDependencies,
                                 bundledDependencies |-> manifest.bundledDependencies,
                                 scripts |-> s.scripts,
                                 version |-> currentVersion]
                  /\ phase' = AfterHook(phase, idx).phase
                  /\ idx' = AfterHook(phase, idx).idx
             ELSE UNCHANGED <<pkgFile, phase, idx>>
    /\ UNCHANGED <<deps, pinnedDevDependency, allowLibraryDependencies, manifest,
                   renderedDeps, installed, lookups, log>>

\* InstallFails of a postSynthesize that goes on to the resolve step when exec has thrown
InstallFailsThenResolves ==
    /\ UNCHANGED <<renders, lastWritten, taskVars>>
    /\ Running("PostSynthesizing", "NpmPackage")
    /\ error' = "install command failed"
    /\ LET r == resolveDepsAndWritePackageJson(installed, pkgFile, renderedDeps)
       IN /\ r.written
          /\ pkgFile' = r.file
          /\ lookups' = r.lookups
    /\ UNCHANGED <<deps, pinnedDevDependency, allowLibraryDependencies, manifest,
                   renderedDeps, installed, log, phase, idx>>

\* NpmPackage.postSynthesize, the install command failing
InstallFails ==
    /\ UNCHANGED <<renders, lastWritten, taskVars>>
    /\ Running("PostSynthesizing", "NpmPackage")
    /\ error' = "install command failed"
    /\ UNCHANGED <<deps, pinnedDevDependency, allowLibraryDependencies, manifest,
                   renderedDeps, pkgFile, installed, lookups, log, phase, idx>>

\* PostSynthesize of a package that renders the ledger anew for its resolve step
PostSynthesizeRerenders ==
    /\ UNCHANGED <<renders, lastWritten, taskVars>>
    /\ Running("PostSynthesizing", "NpmPackage")
    /\ \E inst \in InstalledStates :
          LET again == renderDependencies(deps, pinnedDevDependency, pkgFile)
              r == resolveDepsAndWritePackageJson(inst, pkgFile,
                       [defined |-> TRUE, devDependencies |-> again.devDependencies,
                        peerDependencies |-> again.peerDependencies,
                        dependencies |-> again.dependencies])
          IN /\ again.returned /\ r.written
             /\ installed' = inst
             /\ error' = r.error
             /\ pkgFile' = r.file
             /\ lookups' = r.lookups
             /\ log' = log \cup r.log
             /\ phase' = AfterHook(phase, idx).phase
             /\ idx' = AfterHook(phase, idx).idx
    /\ UNCHANGED <<deps, pinnedDevDependency, allowLibraryDependencies, manifest, renderedDeps>>

\* ModulesAtResolve for a resolve step that runs before the install command
ModulesBeforeInstall(before, after) == before

\* node_modules as resolveDepsAndWritePackageJson finds it, of node_modules before and after
\* the install command: exec(install) has returned when it is called
ModulesAtResolve(before, after) == after

\* NpmPackage.postSynthesize: the install command, then resolveDepsAndWritePackageJson
PostSynthesize ==
    /\ UNCHANGED <<renders, lastWritten, taskVars>>
    /\ Running("PostSynthesizing", "NpmPackage")
    /\ \E inst \in InstalledStates :
          LET r == resolveDepsAndWritePackageJson(ModulesAtResolve(installed, inst),
                                                 pkgFile, renderedDeps)
          IN /\ installed' = inst
             /\ error' = r.error
             /\ IF r.written
                THEN /\ pkgFile' = r.file
                     /\ lookups' = r.lookups
                     /\ log' = log \cup r.log
                     /\ phase' = AfterHook(phase, idx).phase
                     /\ idx' = AfterHook(phase, idx).idx
                ELSE UNCHANGED <<pkgFile, lookups, log, phase, idx>>
    /\ UNCHANGED <<deps, pinnedDevDependency, allowLibraryDependencies, manifest, renderedDeps>>

\* a hook a component does not override: Component.preSynthesize / synthesize /
\* postSynthesize do nothing
DefaultHook ==
    /\ UNCHANGED <<renders, lastWritten, taskVars>>
    /\ \/ Running("PreSynthesizing", "JsonFile")
       \/ Running("Synthesizing", "NpmPackage")
       \/ Running("PostSynthesizing", "JsonFile")
    /\ phase' = AfterHook(phase, idx).phase
    /\ idx' = AfterHook(phase, idx).idx
    /\ UNCHANGED <<deps, pinnedDevDependency, allowLibraryDependencies, manifest,
                   renderedDeps, pkgFile, installed, lookups, log, error>>

\* the project is being configured: nothing has been rendered from the tasks yet
Configuring ==
    /\ error = "none"
    /\ ~renderedScripts.defined
    /\ ~runCommand.defined
    /\ StepCount(tasks) < MaxSteps

\* task.exec(command) on a task of the project
TaskExec ==
    /\ Configuring
    /\ \E e \in ExecInputs :
          /\ TaskIndex(tasks, e[1]) # 0
          /\ tasks' = exec(tasks, e[1], e[2])
    /\ UNCHANGED <<pkgVars, options, scripts, renderedScripts, runCommand, workflows, error>>

\* task.spawn(subtask) on a task of the project
TaskSpawn ==
    /\ Configuring
    /\ \E e \in SpawnInputs :
          /\ TaskIndex(tasks, e[1]) # 0
          /\ TaskIndex(tasks, e[2]) # 0
          /\ tasks' = spawn(tasks, e[1], e[2])
    /\ UNCHANGED <<pkgVars, options, scripts, renderedScripts, runCommand, workflows, error>>

\* package.json is serialised: scripts: () => this.renderScripts()
RenderScripts ==
    /\ error = "none"
    /\ ~renderedScripts.defined
    /\ LET r == renderScripts(options, scripts, tasks)
       IN /\ error' = r.error
          /\ renderedScripts' = IF r.error = "none"
                                THEN [defined |-> TRUE, scripts |-> r.scripts]
                                ELSE renderedScripts
    /\ UNCHANGED <<pkgVars, options, tasks, scripts, runCommand, workflows>>

\* project.runTaskCommand(task), as for the steps of a workflow
RunTaskCommand ==
    /\ error = "none"
    /\ \E i \in 1..Len(tasks) :
          LET r == runTaskCommand(options, tasks[i].name)
          IN /\ error' = r.error
             /\ runCommand' = IF r.error = "none"
                              THEN [defined |-> TRUE, task |-> tasks[i].name,
                                    command |-> r.command]
                              ELSE runCommand
    /\ UNCHANGED <<pkgVars, options, tasks, scripts, renderedScripts, workflows>>

Next ==
    \/ AddDeps
    \/ AddDevDeps
    \/ AddPeerDeps
    \/ AddBundledDeps
    \/ AddDependency
    \/ Synth
    \/ PreSynthesize
    \/ Synthesize
    \/ InstallFails
    \/ PostSynthesize
    \/ DefaultHook

Spec == Init /\ [][Next]_vars

\* project.addDeps(dep) by a hook of another component, once NpmPackage.preSynthesize has
\* run and before the synthesize phase is over
LateAddDeps ==
    /\ error = "none"
    /\ \/ phase = "PreSynthesizing" /\ idx > 1
       \/ phase = "Synthesizing"
    /\ Len(deps) < MaxDeps
    /\ \E spec \in RuntimeSpecs : deps' = addDeps(deps, <<spec>>)
    /\ UNCHANGED <<pinnedDevDependency, allowLibraryDependencies, manifest, renderedDeps,
                   pkgFile, installed, lookups, log, phase, idx, error, renders,
                   lastWritten, taskVars>>

LateNext ==
    \/ Next
    \/ LateAddDeps

\* a run in which dependencies are also added after NpmPackage.preSynthesize
SpecLate == Init /\ [][LateNext]_vars

\* npmPackage.postSynthesize() called on a project that has not been synthesized: the
\* install command, then resolveDepsAndWritePackageJson without a snapshot
PostSynthesizeAlone ==
    /\ phase = "Idle" /\ error = "none"
    /\ \E inst \in InstalledStates :
          LET r == resolveDepsAndWritePackageJson(ModulesAtResolve(installed, inst),
                                                 pkgFile, renderedDeps)
          IN /\ installed' = inst
             /\ error' = r.error
             /\ IF r.written
                THEN /\ pkgFile' = r.file
                     /\ lookups' = r.lookups
                     /\ log' = log \cup r.log
                ELSE UNCHANGED <<pkgFile, lookups, log>>
    /\ UNCHANGED <<deps, pinnedDevDependency, allowLibraryDependencies, manifest,
                   renderedDeps, phase, idx, renders, lastWritten, taskVars>>

AloneNext ==
    \/ Next
    \/ PostSynthesizeAlone

\* runs of synth(), and postSynthesize called without one
SpecAlone == Init /\ [][AloneNext]_vars

\* project.addDevDeps(dep) with a range, on a package that is declared as a peer as well
AddDevDepsRanged ==
    /\ UNCHANGED <<renders, lastWritten, taskVars>>
    /\ Declaring
    /\ \E spec \in PinDevSpecs : deps' = addDevDeps(deps, <<spec>>)
    /\ UNCHANGED <<pinnedDevDependency, allowLibraryDependencies, manifest, renderedDeps,
                   pkgFile, installed, lookups, log, phase, idx, error>>

PinNext ==
    \/ AddDevDepsRanged
    \/ AddPeerDeps
    \/ AddDependency
    \/ Synth
    \/ PreSynthesize

\* packages declared as dev and as peer dependencies, in either order, and rendered
SpecPin == Init /\ [][PinNext]_vars

\* project.synth() called again once a run has finished: the ledger is the one the last
\* run left, package.json the file it wrote, node_modules what its install left
SynthAgain ==
    /\ phase = "Done" /\ error = "none"
    /\ renders < MaxRenders
    /\ phase' = "PreSynthesizing" /\ idx' = 1
    /\ lastWritten' = pkgFile
    /\ UNCHANGED <<deps, pinnedDevDependency, allowLibraryDependencies, manifest,
                   renderedDeps, pkgFile, installed, lookups, log, error, renders, taskVars>>

TwiceNext ==
    \/ AddDeps
    \/ AddDevDeps
    \/ AddDependency
    \/ Synth
    \/ PreSynthesize
    \/ Synthesize
    \/ PostSynthesize
    \/ DefaultHook
    \/ SynthAgain

\* runs of synth() one after the other, the install of each leaving node_modules anew
SpecTwice == Init /\ [][TwiceNext]_vars

\* the state of a project whose constructor is about to add its workflows
WorkflowsInit ==
    /\ deps = <<>>
    /\ pinnedDevDependency = TRUE
    /\ allowLibraryDependencies = TRUE
    /\ manifest = [devDependencies |-> <<>>, peerDependencies |-> <<>>,
                   dependencies |-> <<>>, bundledDependencies |-> <<>>]
    /\ renderedDeps = [defined |-> FALSE]
    /\ pkgFile = NoFile
    /\ installed = NothingInstalled
    /\ lookups = {}
    /\ log = {}
    /\ phase = "Idle"
    /\ idx = 1
    /\ renders = 0
    /\ lastWritten = NoFile
    /\ options \in WorkflowOptionSets
    /\ error = NodeProject(options).error
    /\ tasks = NodeProject(options).tasks
    /\ scripts = NodeProject(options).scripts
    /\ renderedScripts = [defined |-> FALSE]
    /\ runCommand = [defined |-> FALSE]
    /\ workflows = [next |-> "Build", all |-> <<>>]

\* if (options.buildWorkflow ?? !parent) createBuildWorkflow('Build', ...)
BuildWorkflow ==
    /\ error = "none" /\ workflows.next = "Build"
    /\ LET r == BuildBlock(workflows.all, options)
       IN /\ error' = r.error
          /\ workflows' = [next |-> "Release", all |-> r.all]
    /\ UNCHANGED <<pkgVars, options, tasks, scripts, renderedScripts, runCommand>>

\* if (options.releaseWorkflow ?? !parent) createBuildWorkflow('Release', ...)
ReleaseWorkflow ==
    /\ error = "none" /\ workflows.next = "Release"
    /\ LET r == ReleaseBlock(workflows.all, options)
       IN /\ error' = r.error
          /\ workflows' = [next |-> "rebuild-bot", all |-> r.all]
    /\ UNCHANGED <<pkgVars, options, tasks, scripts, renderedScripts, runCommand>>

\* if (options.rebuildBot ?? !parent) addRebuildBot(...)
AddRebuildBot ==
    /\ error = "none" /\ workflows.next = "rebuild-bot"
    /\ LET r == RebuildBotBlock(workflows.all, options)
       IN /\ error' = r.error
          /\ workflows' = [next |-> "done", all |-> r.all]
    /\ UNCHANGED <<pkgVars, options, tasks, scripts, renderedScripts, runCommand>>

WorkflowsNext ==
    \/ BuildWorkflow
    \/ ReleaseWorkflow
    \/ AddRebuildBot

\* the constructor of NodeProject adding its workflows, for every choice of the options
SpecWorkflows == WorkflowsInit /\ [][WorkflowsNext]_vars

RerenderNext ==
    \/ AddDeps
    \/ AddDevDeps
    \/ AddPeerDeps
    \/ AddBundledDeps
    \/ AddDependency
    \/ Synth
    \/ PreSynthesize
    \/ RenderAgain

\* the dependencies of a project rendered, and rendered again
SpecRerender == Init /\ [][RerenderNext]_vars

\* a project constructed with any of the options, its package not synthesized
TasksInit ==
    /\ deps = <<>>
    /\ pinnedDevDependency = TRUE
    /\ allowLibraryDependencies = TRUE
    /\ manifest = [devDependencies |-> <<>>, peerDependencies |-> <<>>,
                   dependencies |-> <<>>, bundledDependencies |-> <<>>]
    /\ renderedDeps = [defined |-> FALSE]
    /\ pkgFile = NoFile
    /\ installed = NothingInstalled
    /\ lookups = {}
    /\ log = {}
    /\ phase = "Idle"
    /\ idx = 1
    /\ renders = 0
    /\ lastWritten = NoFile
    /\ options \in OptionSets
    /\ error = NodeProject(options).error
    /\ tasks = NodeProject(options).tasks
    /\ scripts = NodeProject(options).scripts
    /\ renderedScripts = [defined |-> FALSE]
    /\ runCommand = [defined |-> FALSE]
    /\ workflows = [next |-> "done", all |-> Workflows(options)]

\* project.setScript(name, command), before package.json is serialised
SetScript ==
    /\ error = "none"
    /\ ~renderedScripts.defined
    /\ \E e \in SetScriptInputs : scripts' = setScript(scripts, e[1], e[2])
    /\ UNCHANGED <<pkgVars, options, tasks, renderedScripts, runCommand, workflows, error>>

\* project.removeScript(name), before package.json is serialised
RemoveScript ==
    /\ error = "none"
    /\ ~renderedScripts.defined
    /\ \E n \in RemoveScriptInputs : scripts' = removeScript(scripts, n)
    /\ UNCHANGED <<pkgVars, options, tasks, renderedScripts, runCommand, workflows, error>>

ScriptsNext ==
    \/ SetScript
    \/ RemoveScript
    \/ RenderScripts

\* the scripts of a constructed project set, removed and rendered
SpecScripts == TasksInit /\ [][ScriptsNext]_vars

TasksNext ==
    \/ TaskExec
    \/ TaskSpawn
    \/ RenderScripts
    \/ RunTaskCommand

\* the configuration of the tasks of a project and what is rendered from them
SpecTasks == TasksInit /\ [][TasksNext]_vars

-----------------------------------------------------------------------------
(* Properties *)

\* NpmPackage.preSynthesize has returned and no hook has run since: deps is the ledger
\* renderDependencies left, pkgFile the package.json it read
RenderDone == error = "none" /\ phase = "PreSynthesizing" /\ idx = 2

\* NpmPackage.preSynthesize has thrown
RenderFailed == error # "none" /\ phase = "PreSynthesizing" /\ idx = 1

\* NpmPackage.postSynthesize has returned
PostDone ==
    error = "none" /\ ((phase = "PostSynthesizing" /\ idx = 2) \/ phase = "Done")

\* the buckets as computed from the ledger, before the package.json on disk is consulted
Computed == Partition(deps, 1, EmptyBuckets)

\* a version recorded in package.json that is a concrete value: present, not empty, not "*"
Concrete(v) == v # Undefined /\ v # "" /\ v # "*"

HasConflict(ds) == \E n \in Names : HasDep(ds, n, "peer") /\ HasDep(ds, n, "bundled")

ResolutionErrors ==
    {"unable to determine minimum semver for peer dependency", "TypeError: Invalid SemVer Range"}

ConflictError == "unable to bundle: it cannot appear as a peer dependency"

RangedPeers(ds) ==
    {i \in 1..Len(ds) : ds[i].type = "peer" /\ ~Falsy(ds[i].version)}

\* C2: with peer pinning enabled, a successful render leaves for every PEER dependency with
\* a range a BUILD dependency on the same package pinned to the minimum version of the
\* range, which is the devDependencies entry rendered for it unless a test or devenv
\* entry of that name is declared too; with pinning disabled the render adds none.
C2_PeerPinning ==
    /\ [](RenderDone /\ pinnedDevDependency =>
            \A i \in RangedPeers(deps) :
                LET name == deps[i].name
                    k    == IndexOf(deps, name, "build")
                IN /\ k # 0
                   /\ deps[k].version = minVersion(deps[i].version)
                   /\ name \in KeySet(renderedDeps.devDependencies)
                   /\ (~HasDep(deps, name, "test") /\ ~HasDep(deps, name, "devenv")
                          => Get(renderedDeps.devDependencies, name)
                                = minVersion(deps[i].version)))
    /\ [][Running("PreSynthesizing", "NpmPackage") /\ ~pinnedDevDependency
            => deps' = deps]_vars

\* peer react@^16 was rendered with pinning on: devDependencies holds react at 16.0.0
C2_Witness ==
    /\ RenderDone /\ pinnedDevDependency
    /\ \E i \in RangedPeers(deps) : deps[i].name = "react" /\ deps[i].version = "^16"
    /\ Get(renderedDeps.devDependencies, "react") = "16.0.0"

\* the range has no resolvable minimum
NoMinimum(range) == minVersion(range) = Throws \/ Falsy(minVersion(range))

RenderAttempted == RenderDone \/ RenderFailed

\* C3 as stated: with peer pinning enabled, the render fails, without a snapshot, whenever
\* some PEER dependency has no resolvable minimum, a peer with an empty or missing range
\* included.
C3_Original ==
    (RenderAttempted /\ pinnedDevDependency
        /\ \E i \in 1..Len(deps) :
              deps[i].type = "peer" /\ (Falsy(deps[i].version) \/ NoMinimum(deps[i].version)))
    => (error \in ResolutionErrors /\ ~renderedDeps.defined)

\* C3 as amended: with peer pinning enabled, the render fails with a resolution error,
\* without a snapshot, exactly when some PEER dependency has a non-empty range without a
\* resolvable minimum; a peer without a range does not fail: it adds a BUILD dependency
\* without a range.
C3_Amended ==
    (RenderAttempted /\ pinnedDevDependency) =>
        /\ (error \in ResolutionErrors) <=> (\E i \in RangedPeers(deps) : NoMinimum(deps[i].version))
        /\ (error # "none" => ~renderedDeps.defined)
        /\ (RenderDone =>
               \A i \in 1..Len(deps) :
                   (deps[i].type = "peer" /\ Falsy(deps[i].version)) =>
                       /\ HasDep(deps, deps[i].name, "build")
                       /\ deps[IndexOf(deps, deps[i].name, "build")].version = Undefined)

\* a render failed on a peer range without a minimum, and left no snapshot
C3_Witness ==
    /\ RenderFailed /\ pinnedDevDependency
    /\ error \in ResolutionErrors
    /\ \E i \in RangedPeers(deps) : NoMinimum(deps[i].version)
    /\ ~renderedDeps.defined

\* C4 as stated: once a name is declared both PEER and BUNDLED, the add call that declared
\* the second role has raised the conflict error: before synth() the ledger never holds
\* such a name without that error.
C4_Original == (phase = "Idle" /\ HasConflict(deps)) => error = ConflictError

\* C4 as amended: the add calls raise no conflict error (they fail only for a project that
\* takes no library dependencies); a name declared PEER and BUNDLED, in either order, is
\* rejected when renderDependencies runs: the render fails with the conflict error, or
\* with the resolution error of the peer pinning before it.
C4_Amended ==
    /\ (phase = "Idle" /\ error # "none" => ~allowLibraryDependencies /\ error # ConflictError)
    /\ (RenderAttempted =>
           /\ (error = ConflictError => HasConflict(deps))
           /\ (HasConflict(deps) => error \in {ConflictError} \cup ResolutionErrors))

\* a name was declared PEER, then BUNDLED, without an error, and the render then failed
C4_Witness ==
    /\ RenderFailed /\ error = ConflictError
    /\ \E n \in Names :
          /\ HasDep(deps, n, "peer") /\ HasDep(deps, n, "bundled")
          /\ IndexOf(deps, n, "peer") < IndexOf(deps, n, "bundled")

\* C5: a render never returns a snapshot with a name in peerDependencies and in
\* bundledDependencies: whenever the ledger holds a name as PEER and as BUNDLED, in
\* either order, renderDependencies raises an error and returns nothing.
C5_NoPeerBundled ==
    /\ (RenderAttempted /\ HasConflict(deps) => error # "none" /\ ~renderedDeps.defined)
    /\ (renderedDeps.defined =>
           KeySet(renderedDeps.peerDependencies)
              \cap {manifest.bundledDependencies[i] : i \in 1..Len(manifest.bundledDependencies)}
           = {})

\* a name was declared BUNDLED, then PEER, and the render failed
C5_Witness ==
    /\ RenderFailed /\ ~renderedDeps.defined
    /\ \E n \in Names :
          /\ HasDep(deps, n, "peer") /\ HasDep(deps, n, "bundled")
          /\ IndexOf(deps, n, "bundled") < IndexOf(deps, n, "peer")


\* the range a ledger entry declares, "*" when it declares none
Declared(dep) == IF dep.version = Undefined THEN "*" ELSE dep.version

\* the last entry of the ledger with this name and one of these roles, 0 if there is none
LastOf(ds, name, types) ==
    LET S == {i \in 1..Len(ds) : ds[i].name = name /\ ds[i].type \in types}
    IN IF S = {} THEN 0 ELSE CHOOSE i \in S : \A j \in S : j <= i

SeqSet(sq) == {sq[i] : i \in 1..Len(sq)}

\* C6 as stated: after a successful render every BUNDLED name is in bundledDependencies
\* and is a key of dependencies whose value is its declared range, "*" when it has none.
C6_Original ==
    RenderDone =>
        \A i \in 1..Len(deps) : deps[i].type = "bundled" =>
            /\ deps[i].name \in SeqSet(manifest.bundledDependencies)
            /\ Get(manifest.dependencies, deps[i].name) = Declared(deps[i])

\* C6 as amended: after a successful render every BUNDLED name is in bundledDependencies
\* and is a key of dependencies; the value is the declared range ("*" when none) of the
\* last RUNTIME or BUNDLED entry of that name in the ledger, a "*" being replaced by the
\* concrete version a package.json on disk records for the name.
C6_Amended ==
    RenderDone =>
        \A i \in 1..Len(deps) : deps[i].type = "bundled" =>
            LET name  == deps[i].name
                new   == Declared(deps[LastOf(deps, name, {"runtime", "bundled"})])
                prior == IF pkgFile.exists
                         THEN Get(FieldOrEmpty(pkgFile, "dependencies"), name)
                         ELSE Undefined
            IN /\ name \in SeqSet(manifest.bundledDependencies)
               /\ name \in KeySet(manifest.dependencies)
               /\ Get(manifest.dependencies, name) =
                     IF new = "*" /\ Concrete(prior) THEN prior ELSE new

\* left-pad was bundled with a range and then declared a runtime dependency without one:
\* the render put it in both places, with a value that is not the bundled range
C6_Witness ==
    /\ RenderDone
    /\ \E i \in 1..Len(deps) :
          /\ deps[i].type = "bundled" /\ deps[i].name = "left-pad"
          /\ deps[i].version = "^1.2.0"
    /\ "left-pad" \in SeqSet(manifest.bundledDependencies)
    /\ Get(manifest.dependencies, "left-pad") = "*"

\* the bucket a role is rendered to
Roles(f) ==
    CASE f = "dependencies" -> {"runtime", "bundled"}
      [] f = "peerDependencies" -> {"peer"}
      [] f = "devDependencies" -> {"build", "test", "devenv"}

AsSet(obj) == {obj[i] : i \in 1..Len(obj)}

ScenarioLedger ==
    { [name |-> "left-pad", version |-> Undefined, type |-> "runtime"],
      [name |-> "test-lib", version |-> "^3", type |-> "build"],
      [name |-> "react", version |-> "^16", type |-> "peer"],
      [name |-> "react", version |-> "16.0.0", type |-> "build"] }

\* C7: without a package.json a successful render partitions the ledger by role: each
\* bucket holds exactly the names declared in its roles (runtime and bundled; peer; build,
\* test and devenv), each with the declared range of its entry, "*" when it declares none;
\* left-pad, test-lib@^3 and peer react@^16 with pinning render as runtime
\* {left-pad: "*"}, peer {react: "^16"}, dev {test-lib: "^3", react: "16.0.0"}.
C7_Partition ==
    (RenderDone /\ ~pkgFile.exists) =>
        /\ \A f \in DepFields :
              /\ KeySet(renderedDeps[f])
                    = {deps[i].name : i \in {j \in 1..Len(deps) : deps[j].type \in Roles(f)}}
              /\ \A n \in KeySet(renderedDeps[f]) :
                    Get(renderedDeps[f], n) = Declared(deps[LastOf(deps, n, Roles(f))])
              /\ manifest[f] = renderedDeps[f]
        /\ (SeqSet(deps) = ScenarioLedger =>
              /\ AsSet(renderedDeps.dependencies) = { <<"left-pad", "*">> }
              /\ AsSet(renderedDeps.peerDependencies) = { <<"react", "^16">> }
              /\ AsSet(renderedDeps.devDependencies)
                    = { <<"test-lib", "^3">>, <<"react", "16.0.0">> })

\* the scenario was declared in its order and rendered, the pin being added by the render
C7_Witness ==
    /\ RenderDone /\ ~pkgFile.exists /\ pinnedDevDependency
    /\ deps = << [name |-> "left-pad", version |-> Undefined, type |-> "runtime"],
                 [name |-> "test-lib", version |-> "^3", type |-> "build"],
                 [name |-> "react", version |-> "^16", type |-> "peer"],
                 [name |-> "react", version |-> "16.0.0", type |-> "build"] >>
    /\ renderedDeps.devDependencies = << <<"test-lib", "^3">>, <<"react", "16.0.0">> >>

\* the keys of the object are in strictly ascending localeCompare order
SortedByKey(obj) ==
    \A i, j \in 1..Len(obj) : i < j => localeCompare(obj[i][1], obj[j][1]) < 0

\* C8: the dependencies, devDependencies and peerDependencies that the resolve step of
\* postSynthesize writes to package.json are sorted by key, whatever the order in which the
\* dependencies were declared.
C8_SortedMaps ==
    PostDone => \A f \in DepFields : SortedByKey(pkgFile[f])

\* react was declared before left-pad and rendered in that order; the file lists left-pad
\* first
C8_Witness ==
    /\ PostDone
    /\ Keys(renderedDeps.dependencies) = <<"react", "left-pad">>
    /\ Keys(pkgFile.dependencies) = <<"left-pad", "react">>

\* the names are in ascending localeCompare order
SortedNames(names) ==
    \A i, j \in 1..Len(names) : i < j => localeCompare(names[i], names[j]) <= 0

\* the names of the BUNDLED entries of the ledger, in ledger order
BundledNames(ds) ==
    LET b == SelectSeq(ds, LAMBDA d : d.type = "bundled")
    IN [i \in 1..Len(b) |-> b[i].name]

\* C9 as stated: the bundled-dependency list of a rendered snapshot, and of the
\* package.json written from it, is sorted whatever the order of declaration.
C9_Original ==
    /\ (renderedDeps.defined => SortedNames(manifest.bundledDependencies))
    /\ (PostDone => SortedNames(pkgFile.bundledDependencies))

\* C9 as amended: the bundled-dependency list of a rendered snapshot is the names of the
\* BUNDLED entries in the order of the ledger, each once; it is not sorted, and
\* package.json carries it in that order after the resolve step.
C9_Amended ==
    /\ (RenderDone => manifest.bundledDependencies = BundledNames(deps))
    /\ (renderedDeps.defined =>
           \A i, j \in 1..Len(manifest.bundledDependencies) :
               i # j => manifest.bundledDependencies[i] # manifest.bundledDependencies[j])
    /\ (PostDone => pkgFile.bundledDependencies = manifest.bundledDependencies)

\* react was bundled before left-pad: package.json lists them in that order
C9_Witness ==
    /\ PostDone
    /\ pkgFile.bundledDependencies = <<"react", "left-pad">>

\* C10: in the resolve step of postSynthesize every dependency that is "*" after
\* reconciliation and whose installed package is found is written as "^" and the installed
\* version; every dependency that is not "*" is written unchanged, and nothing is looked
\* up for it.
C10_Resolve ==
    PostDone =>
        \A f \in DepFields : \A i \in 1..Len(renderedDeps[f]) :
            LET name == renderedDeps[f][i][1]
                v    == renderedDeps[f][i][2]
            IN /\ (v = "*" /\ installed[name] # Undefined
                      => Get(pkgFile[f], name) = "^" \o installed[name])
               /\ (v # "*" => Get(pkgFile[f], name) = v /\ <<f, name>> \notin lookups)

\* a "*" was written as the caret range of the installed 1.3.0 while a ranged peer was
\* written through, unresolved, although its package is installed
C10_Witness ==
    /\ PostDone
    /\ Get(renderedDeps.dependencies, "left-pad") = "*"
    /\ Get(pkgFile.dependencies, "left-pad") = "^1.3.0"
    /\ Get(renderedDeps.peerDependencies, "react") = "^16"
    /\ Get(pkgFile.peerDependencies, "react") = "^16"
    /\ installed["react"] # Undefined

\* the entries of the rendered snapshot that are "*" and whose lookup in node_modules failed
FailedLookups ==
    UNION {{<<f, renderedDeps[f][i][1]>> :
                i \in {j \in 1..Len(renderedDeps[f]) :
                          /\ renderedDeps[f][j][2] = "*"
                          /\ installed[renderedDeps[f][j][1]] = Undefined}} : f \in DepFields}

\* C11: a failed lookup of the installed version of a "*" dependency is not fatal: where
\* postSynthesize is about to run, the resolve step throws for no outcome of the install,
\* and once it has run every "*" entry whose lookup failed is in the written map with "*".
C11_LookupFailureKept ==
    /\ Running("PostSynthesizing", "NpmPackage") =>
          \A inst \in InstalledStates :
              resolveDepsAndWritePackageJson(inst, pkgFile, renderedDeps).error = "none"
    /\ PostDone => \A e \in FailedLookups : Get(pkgFile[e[1]], e[2]) = "*"

\* nothing is installed and the "*" of left-pad was written as "*"
C11_Witness ==
    /\ PostDone
    /\ <<"dependencies", "left-pad">> \in FailedLookups
    /\ <<"dependencies", "left-pad">> \in lookups
    /\ Get(pkgFile.dependencies, "left-pad") = "*"

WarnLine(name) ==
    [level |-> "warn",
     msg |-> "unable to resolve version for " \o name \o " from installed modules"]

\* C12: once postSynthesize has run, a warning has been logged for every "*" dependency
\* whose lookup of the installed version failed.
C12_WarningEmitted ==
    PostDone => \A e \in FailedLookups : WarnLine(e[2]) \in log

ModeError == "invalid npmTaskExecution mode"

ValidMode == npmTaskExecution(options) \in {PROJEN, SHELL}

\* the fragments a task runs, spawned tasks inlined, written out for the tasks of the model
InlinedSteps(name) == Flatten(tasks, name, 1)

\* C17: the npm script rendered for a task is the projen command followed by the name of
\* the task in PROJEN mode and the steps of the task joined in one command line, spawned
\* tasks inlined, in SHELL mode; in any other mode nothing is rendered and rendering
\* stops with the error of an invalid mode.
C17_NpmScriptForTask ==
    /\ renderedScripts.defined =>
          /\ ValidMode
          /\ \A i \in 1..Len(tasks) :
                Get(renderedScripts.scripts, tasks[i].name) =
                    IF npmTaskExecution(options) = PROJEN
                    THEN projenCommand(options) \o " " \o tasks[i].name
                    ELSE JoinWith(InlinedSteps(tasks[i].name), "; ")
    /\ error = ModeError => ~ValidMode /\ ~renderedScripts.defined

\* in SHELL mode build spawns test, and test spawns test:compile before it runs jest: the
\* script of build is the command of test:compile, then the command of test
C17_Witness ==
    /\ renderedScripts.defined
    /\ npmTaskExecution(options) = SHELL
    /\ tasks[TaskIndex(tasks, "build")].steps = <<[kind |-> "spawn", arg |-> "test"]>>
    /\ Get(renderedScripts.scripts, "build") = "tsc --noEmit; jest"
    /\ Get(renderedScripts.scripts, "test:compile") = "tsc --noEmit"
    /\ Get(renderedScripts.scripts, "projen") = projenCommand(options)

\* C18: runTaskCommand returns the projen command and the name of the task in PROJEN
\* mode, "yarn run" or "npm run", as the package manager is, and the name of the task in
\* SHELL mode, and never the inlined steps of the task; in any other mode it returns
\* nothing and stops with the error of an invalid mode.
C18_RunTaskCommand ==
    /\ runCommand.defined =>
          /\ ValidMode
          /\ runCommand.command =
                IF npmTaskExecution(options) = PROJEN
                THEN projenCommand(options) \o " " \o runCommand.task
                ELSE (IF packageManager(options) = NPM THEN "npm run " ELSE "yarn run ")
                     \o runCommand.task
          /\ runCommand.command # toShellCommand(tasks, runCommand.task)
    /\ error = ModeError => ~ValidMode /\ ~runCommand.defined

\* with npm in SHELL mode the build step runs "npm run build" while the script of build
\* is the inlined command of compile
C18_Witness ==
    /\ runCommand.defined
    /\ runCommand.task = "build"
    /\ runCommand.command = "npm run build"
    /\ renderedScripts.defined
    /\ Get(renderedScripts.scripts, "build") = "tsc"

StandardTaskNames == {"compile", "test:compile", "test", "build"}

\* the scripts of the options named as a standard task of the project
Collisions == {i \in 1..Len(options.scripts) : options.scripts[i][1] \in StandardTaskNames}

\* C19: when the scripts option holds a script named as a standard task, the project is
\* constructed and the task of that name runs the script of the user.
C19_UserScriptOverrides ==
    (Collisions # {} /\ runScriptCommand(options) # Throws) =>
        /\ error # DuplicateTaskError
        /\ \A i \in Collisions :
              /\ TaskIndex(tasks, options.scripts[i][1]) # 0
              /\ tasks[TaskIndex(tasks, options.scripts[i][1])].steps =
                    <<[kind |-> "exec", arg |-> options.scripts[i][2]]>>

\* no two entries of the ledger have the same name and role
NoDuplicates(ds) ==
    \A i, j \in 1..Len(ds) : (ds[i].name = ds[j].name /\ ds[i].type = ds[j].type) => i = j

\* C13: the ledger a render leaves holds no (name, role) twice, and a render that follows
\* another, with the same options and the same package.json, returns the same snapshot,
\* sets the same manifest and leaves the ledger as it found it, the pinned dev
\* dependencies of the first render included.
C13_RenderTwice ==
    /\ [](RenderDone => NoDuplicates(deps))
    /\ [][(RenderDone /\ renders' = renders + 1) =>
            /\ error' = "none"
            /\ renderedDeps' = renderedDeps
            /\ manifest' = manifest
            /\ deps' = deps]_vars

\* the second render has returned: the ledger holds the dev dependency the first render
\* pinned for the peer react@^16, and a package.json was reconciled with
C13_Witness ==
    /\ RenderDone
    /\ renders = 2
    /\ pkgFile.exists
    /\ \E i \in 1..Len(deps) :
          deps[i] = [name |-> "react", version |-> "^16", type |-> "peer"]
    /\ \E i \in 1..Len(deps) :
          deps[i] = [name |-> "react", version |-> "16.0.0", type |-> "build"]
    /\ Get(renderedDeps.devDependencies, "react") = "16.0.0"

PhaseOrder ==
    {<<"Idle", "PreSynthesizing">>, <<"PreSynthesizing", "Synthesizing">>,
     <<"Synthesizing", "PostSynthesizing">>, <<"PostSynthesizing", "Done">>}

\* C14: a run moves from Idle through PreSynthesizing, Synthesizing and PostSynthesizing
\* to Done: within a phase the hooks run in the order of the components, a phase begins
\* with the first component only when the phase before it has run the hook of the last,
\* so the snapshot is rendered before package.json is written and package.json is written
\* before the resolve step reads it.
C14_PhaseOrder ==
    /\ [][(phase' # phase \/ idx' # idx) =>
            \/ /\ phase' = phase
               /\ phase \in {"PreSynthesizing", "Synthesizing", "PostSynthesizing"}
               /\ idx < Len(Components)
               /\ idx' = idx + 1
            \/ /\ <<phase, phase'>> \in PhaseOrder
               /\ phase = "Idle" \/ idx = Len(Components)
               /\ idx' = 1]_vars
    /\ [](phase \in {"Synthesizing", "PostSynthesizing", "Done"} =>
             renderedDeps.defined /\ renders = 1)
    /\ [](phase \in {"PostSynthesizing", "Done"} =>
             pkgFile.exists /\ DepFields \subseteq pkgFile.has)

\* a run is done: the snapshot was rendered, package.json written and a version resolved
C14_Witness ==
    /\ phase = "Done"
    /\ error = "none"
    /\ renders = 1
    /\ \E n \in Names : <<"dependencies", n>> \in lookups /\ installed[n] # Undefined

InstallError == "install command failed"

\* package.json holds the dependency fields as the manifest has them
WrittenFromManifest ==
    /\ pkgFile.exists
    /\ pkgFile.dependencies = manifest.dependencies
    /\ pkgFile.devDependencies = manifest.devDependencies
    /\ pkgFile.peerDependencies = manifest.peerDependencies
    /\ pkgFile.bundledDependencies = manifest.bundledDependencies

\* C16: nothing runs after a failure. When rendering the dependencies has failed in
\* pre-synthesis, no snapshot and no manifest is set, package.json is the one found, and
\* nothing was installed or looked up; when the install command has failed, the run is
\* still at postSynthesize of NpmPackage, nothing was looked up and package.json is as the
\* synthesize phase wrote it from the manifest.
C16_FailureAborts ==
    /\ [][error = "none"]_vars
    /\ [](RenderFailed =>
             /\ ~renderedDeps.defined
             /\ manifest.dependencies = <<>> /\ manifest.devDependencies = <<>>
             /\ pkgFile \in PriorFiles
             /\ installed = NothingInstalled
             /\ lookups = {})
    /\ [](error = InstallError =>
             /\ phase = "PostSynthesizing" /\ idx = 1
             /\ lookups = {}
             /\ WrittenFromManifest)

\* the install command failed after package.json was written with a "*" that the resolve
\* step would have looked up
C16_Witness ==
    /\ error = InstallError
    /\ WrittenFromManifest
    /\ Get(pkgFile.dependencies, "left-pad") = "*"
    /\ Get(renderedDeps.dependencies, "left-pad") = "*"

\* the names the ledger holds as runtime dependencies
RuntimeNames(ds) == {ds[i].name : i \in {j \in 1..Len(ds) : ds[j].type = "runtime"}}

\* C20 as stated: once the run has resolved, every runtime dependency of the ledger, all
\* of them added before the end of the synthesize phase, is in the snapshot and in the
\* dependencies written to package.json.
C20_Original ==
    PostDone =>
        /\ RuntimeNames(deps) \subseteq KeySet(renderedDeps.dependencies)
        /\ RuntimeNames(deps) \subseteq KeySet(pkgFile.dependencies)

\* C20, amended: the snapshot holds every runtime dependency the ledger holds when
\* NpmPackage.preSynthesize returns; no later step changes the snapshot or the manifest,
\* an addition to the ledger included; and the maps written to package.json hold the
\* names of the snapshot and no other.
C20_Amended ==
    /\ [][(renders' = renders + 1 /\ error' = "none") =>
            RuntimeNames(deps') \subseteq KeySet(renderedDeps'.dependencies)]_vars
    /\ [][renderedDeps.defined =>
            renderedDeps' = renderedDeps /\ manifest' = manifest]_vars
    /\ [](PostDone =>
             \A f \in DepFields : KeySet(pkgFile[f]) = KeySet(renderedDeps[f]))

\* react was declared before synth() and left-pad added after preSynthesize: package.json
\* has react and not left-pad
C20_Witness ==
    /\ PostDone
    /\ RuntimeNames(deps) = {"react", "left-pad"}
    /\ KeySet(renderedDeps.dependencies) = {"react"}
    /\ KeySet(pkgFile.dependencies) = {"react"}

\* the tasks of the project whose spawns lead back to a task being resolved
CyclicTasks == {tasks[i].name : i \in {j \in 1..Len(tasks) : InCycle(tasks, tasks[j].name)}}

\* C21 as stated: when the spawns of a task of the project form a cycle, no scripts are
\* rendered.
C21_Original == CyclicTasks # {} => ~renderedScripts.defined

\* C21, amended: rendering the scripts stops with CycleError only in SHELL mode and only
\* when the spawns of a task form a cycle, and in SHELL mode no scripts are rendered from
\* such tasks; in PROJEN mode the spawns are not resolved and the script of every task is
\* the projen command and its name, cycle or not.
C21_Amended ==
    /\ error = CycleError =>
          /\ npmTaskExecution(options) = SHELL
          /\ CyclicTasks # {}
          /\ ~renderedScripts.defined
    /\ (renderedScripts.defined /\ npmTaskExecution(options) = SHELL) => CyclicTasks = {}
    /\ (renderedScripts.defined /\ npmTaskExecution(options) = PROJEN) =>
          \A n \in CyclicTasks :
              Get(renderedScripts.scripts, n) = projenCommand(options) \o " " \o n

\* build spawns compile and compile spawns build, and in PROJEN mode both have a script
C21_Witness ==
    /\ renderedScripts.defined
    /\ npmTaskExecution(options) = PROJEN
    /\ {"build", "compile"} \subseteq CyclicTasks
    /\ "test" \notin CyclicTasks
    /\ Get(renderedScripts.scripts, "build") = projenCommand(options) \o " build"

\* the steps of a task
StepsOf(name) == tasks[TaskIndex(tasks, name)].steps

RECURSIVE StepsInOrder(_, _)
\* the commands of the first n steps of a task, step by step: the command of an exec, the
\* commands rendered for the task of a spawn
StepsInOrder(name, n) ==
    IF n = 0 THEN <<>>
    ELSE StepsInOrder(name, n - 1) \o
         (IF StepsOf(name)[n].kind = "exec" THEN <<StepsOf(name)[n].arg>>
          ELSE InlinedSteps(StepsOf(name)[n].arg))

RECURSIVE ExecsFrom(_, _)
\* the commands of the exec steps of a task from step i on
ExecsFrom(name, i) ==
    IF i > Len(StepsOf(name)) THEN <<>>
    ELSE (IF StepsOf(name)[i].kind = "exec" THEN <<StepsOf(name)[i].arg>> ELSE <<>>)
         \o ExecsFrom(name, i + 1)

\* C22: in SHELL mode the script of a task is its steps in the order they were appended,
\* each spawn replaced in place by the commands of the spawned task; the first step of
\* the test task of a NodeProject is the spawn of test:compile, so its script is the
\* commands of test:compile followed by the commands appended to test.
C22_DirectOrder ==
    (renderedScripts.defined /\ npmTaskExecution(options) = SHELL) =>
        /\ \A i \in 1..Len(tasks) :
              Get(renderedScripts.scripts, tasks[i].name) =
                  JoinWith(StepsInOrder(tasks[i].name, Len(tasks[i].steps)), "; ")
        /\ Len(StepsOf("test")) > 0
        /\ StepsOf("test")[1] = [kind |-> "spawn", arg |-> "test:compile"]
        /\ Get(renderedScripts.scripts, "test") =
              JoinWith(InlinedSteps("test:compile") \o ExecsFrom("test", 2), "; ")

\* test:compile runs tsc --noEmit and jest was appended to test: the script of test runs
\* tsc --noEmit, then jest, and so does build, which spawns test after compile
C22_Witness ==
    /\ renderedScripts.defined
    /\ npmTaskExecution(options) = SHELL
    /\ StepsOf("test:compile") = <<[kind |-> "exec", arg |-> "tsc --noEmit"]>>
    /\ StepsOf("test") = <<[kind |-> "spawn", arg |-> "test:compile"],
                           [kind |-> "exec", arg |-> "jest"]>>
    /\ Get(renderedScripts.scripts, "test") = "tsc --noEmit; jest"
    /\ StepsOf("build") = <<[kind |-> "spawn", arg |-> "test"]>>
    /\ Get(renderedScripts.scripts, "build") = "tsc --noEmit; jest"

TaskNames == {tasks[i].name : i \in 1..Len(tasks)}

PeerRefused == "cannot add peer dependencies to an APP project"
BundledRefused == "cannot add bundled dependencies to an APP project"

\* C24: in a project that takes no library dependencies, addPeerDeps and addBundledDeps
\* with one dependency or more fail and store none of them, so the ledger never holds a
\* peer or a bundled dependency, and with no dependency they return without an error and
\* leave the ledger as it is.
C24_AppProject ==
    /\ [][error' \in {PeerRefused, BundledRefused} =>
            ~allowLibraryDependencies /\ deps' = deps]_vars
    /\ [](~allowLibraryDependencies =>
             /\ \A i \in 1..Len(deps) : deps[i].type \notin {"peer", "bundled"}
             /\ \A c \in PeerCalls :
                   addPeerDeps(deps, c, FALSE) =
                       [deps |-> deps, error |-> IF c = <<>> THEN "none" ELSE PeerRefused]
             /\ \A c \in BundledCalls :
                   addBundledDeps(deps, c, FALSE) =
                       [deps |-> deps, error |-> IF c = <<>> THEN "none" ELSE BundledRefused])

\* a project with two dependencies refused a peer dependency and still has the two
C24_Witness ==
    /\ error = PeerRefused
    /\ ~allowLibraryDependencies
    /\ Len(deps) = 2

AssertionFailed == "assertion failed"
NoPackageJson == "ENOENT: package.json"

\* postSynthesize has thrown on a project that was never synthesized
FailedAlone == phase = "Idle" /\ error \notin {"none", PeerRefused, BundledRefused}

\* C25 as stated: postSynthesize run without a preceding preSynthesize raises
\* 'assertion failed'.
C25_Original == FailedAlone => error = AssertionFailed

\* C25, amended: a run of synth() in phase order never stops with 'assertion failed';
\* postSynthesize run without a preceding preSynthesize stops with 'assertion failed'
\* when a package.json exists in the output directory and with the error of reading
\* package.json when none exists, in both cases with node_modules as the install command
\* left it.
C25_Amended ==
    /\ [](phase # "Idle" => error \notin {AssertionFailed, NoPackageJson})
    /\ [](FailedAlone =>
             /\ ~renderedDeps.defined
             /\ error = IF pkgFile.exists THEN AssertionFailed ELSE NoPackageJson)
    /\ [][error' \in {AssertionFailed, NoPackageJson} =>
            installed' \in InstalledStates /\ pkgFile' = pkgFile /\ lookups' = {}]_vars

\* the install command installed react, then the assertion failed on the package.json of
\* an earlier run
C25_Witness ==
    /\ error = AssertionFailed
    /\ phase = "Idle"
    /\ installed["react"] = "16.13.1"
    /\ pkgFile = PriorA

\* the names the ledger declares for a bucket, the pins of the render included
DeclaredNames(f) == {deps[i].name : i \in {j \in 1..Len(deps) : deps[j].type \in Roles(f)}}

\* the names that only the package.json read by the render has in a bucket
PriorOnly(f) == KeySet(FieldOrEmpty(pkgFile, f)) \ DeclaredNames(f)

\* C27: whatever package.json an earlier run left, each dependency map of the snapshot,
\* and each map the resolve step writes, has exactly the names the ledger declares for its
\* bucket in this run (pins included): no name that only the earlier package.json has is
\* added and no declared name is dropped; each name only the earlier file has is logged
\* as removed, and the render returns all the same.
C27_NamesAreDeclared ==
    /\ (RenderDone =>
          \A f \in DepFields :
              /\ KeySet(renderedDeps[f]) = DeclaredNames(f)
              /\ KeySet(manifest[f]) = DeclaredNames(f)
              /\ (pkgFile.exists =>
                    \A n \in PriorOnly(f) :
                        [level |-> "verbose", msg |-> n \o ": removed"] \in log))
    /\ (PostDone => \A f \in DepFields : KeySet(pkgFile[f]) = DeclaredNames(f))

\* the render read a package.json that records left-pad and react as dependencies while
\* only test-lib is declared, as a BUILD dependency: both are reported removed
C27_Witness ==
    /\ RenderDone /\ pkgFile = PriorA
    /\ DeclaredNames("dependencies") = {}
    /\ DeclaredNames("devDependencies") = {"test-lib"}
    /\ PriorOnly("dependencies") = {"left-pad", "react"}
    /\ [level |-> "verbose", msg |-> "left-pad: removed"] \in log

\* the BUILD, TEST and DEVENV entries of the ledger on a package
DevEntries(ds, name, types) ==
    {j \in 1..Len(ds) : ds[j].name = name /\ ds[j].type \in types}

C29_ResolveFrame ==
    [][(Running("PostSynthesizing", "NpmPackage") /\ error' = "none") =>
          /\ \A f \in DepFields :
                pkgFile'[f] = resolveDeps(installed', pkgFile[f], renderedDeps[f])
          /\ DOMAIN pkgFile' = DOMAIN pkgFile
          /\ \A f \in (DOMAIN pkgFile) \ DepFields : pkgFile'[f] = pkgFile[f]]_vars

\* package.json was written with left-pad resolved to ^1.3.0 from the "*" of the
\* snapshot; its bundledDependencies, scripts and version are those JsonFile wrote
C29_Witness ==
    /\ PostDone
    /\ Get(renderedDeps.dependencies, "left-pad") = "*"
    /\ Get(pkgFile.dependencies, "left-pad") = "^1.3.0"
    /\ pkgFile.bundledDependencies = <<"left-pad">>
    /\ pkgFile.version = currentVersion
    /\ Get(pkgFile.scripts, "test") # Undefined

\* the version the ledger declares for a name of a bucket is the wildcard
Wildcard(f, n) == Declared(deps[LastOf(deps, n, Roles(f))]) = "*"

\* C26: once a run of synth() has written a concrete version for a dependency declared
\* without a range, every later run with the same declarations writes that same version
\* for it, whatever its install left in node_modules: the render takes the recorded
\* version in place of "*", and the resolve step rewrites nothing but "*".
C26_NoChurn ==
    (PostDone /\ lastWritten.exists) =>
        \A f \in DepFields : \A n \in DeclaredNames(f) :
            (Wildcard(f, n) /\ Concrete(Get(lastWritten[f], n)))
                => /\ Get(renderedDeps[f], n) = Get(lastWritten[f], n)
                   /\ Get(pkgFile[f], n) = Get(lastWritten[f], n)

\* test-lib, declared without a range, was written as ^3.2.0 by the first run; the
\* install of the second run left test-lib 1.3.0, and the second run wrote ^3.2.0 again
C26_Witness ==
    /\ PostDone /\ renders = 2 /\ lastWritten.exists
    /\ "test-lib" \in DeclaredNames("devDependencies")
    /\ Wildcard("devDependencies", "test-lib")
    /\ Get(lastWritten.devDependencies, "test-lib") = "^3.2.0"
    /\ installed["test-lib"] = "1.3.0"
    /\ Get(pkgFile.devDependencies, "test-lib") = "^3.2.0"

\* the places of a step name in the steps of a job
Places(steps, name) == {i \in 1..Len(steps) : steps[i] = name}

\* the steps createBuildWorkflow adds for options.commit, options.pushBranch and
\* options.postSteps
ClosingSteps == {"Commit changes", "Push changes", "Post comment to issue"}

\* C23: the build job of every workflow createBuildWorkflow has added holds the step
\* 'Anti-tamper check' exactly when the antitamper flag of the project is true (build
\* workflow on, antitamper option not false) and the workflow is not the rebuild-bot, the
\* one that disables it; it then holds it twice: right after 'Synthesize project files',
\* and after 'Build' with every commit, push and post step after it. The rebuild-bot never
\* holds it.
C23_AntiTamper ==
    \A k \in 1..Len(workflows.all) :
        LET w     == workflows.all[k]
            at    == Places(w.steps, "Anti-tamper check")
            build == CHOOSE i \in Places(w.steps, "Build") : TRUE
        IN /\ Cardinality(Places(w.steps, "Build")) = 1
           /\ (at # {}) <=> (antitamper(options) /\ w.name # "rebuild-bot")
           /\ (w.name = "rebuild-bot" => at = {})
           /\ (at # {} =>
                 /\ Cardinality(at) = 2
                 /\ \E i, j \in at :
                       /\ i < build /\ build < j
                       /\ w.steps[i - 1] = "Synthesize project files"
                       /\ \A c \in ClosingSteps : \A m \in Places(w.steps, c) : j < m)

\* the Release workflow of a project with the check on: it pushes, after the second check;
\* the rebuild-bot of the same project has commit, push and post steps and no check
C23_Witness ==
    /\ workflows.next = "done" /\ antitamper(options)
    /\ \E k \in 1..Len(workflows.all) :
          /\ workflows.all[k].name = "Release"
          /\ Cardinality(Places(workflows.all[k].steps, "Anti-tamper check")) = 2
          /\ Places(workflows.all[k].steps, "Push changes") # {}
    /\ \E k \in 1..Len(workflows.all) :
          /\ workflows.all[k].name = "rebuild-bot"
          /\ Places(workflows.all[k].steps, "Commit changes") # {}
          /\ Places(workflows.all[k].steps, "Anti-tamper check") = {}

====
